---------------------------- MODULE Spec2Model ----------------------------
(***************************************************************************)
(* Model of UMABotAIComponent (src/MABotAiComponentExample.cpp): the bot   *)
(* task selector DetermineCurrentTask, destination resolution              *)
(* DetermineMoveLocation, the per-frame TickComponent dispatch and the     *)
(* inbound events OnPawnSeen / PossibleTargetDied / OnDied / OnSpawn.      *)
(*                                                                         *)
(* Units.  World time is read in whole seconds.  Task weights and focus    *)
(* scores are floats in the source; the model keeps them exact as integers *)
(* in hundredths, so a source weight of 70.0f is 7000 here.  Locations are *)
(* points of a line (one coordinate), distances are absolute differences,  *)
(* in engine units.                                                        *)
(***************************************************************************)
EXTENDS Integers, Sequences, FiniteSets, TLC

(***************************************************************************)
(* Bounds of the model                                                     *)
(***************************************************************************)
\* how many times the clock advances after construction
MaxPauses == 1

(***************************************************************************)
(* Enumerations of the source                                              *)
(***************************************************************************)
EAIStates ==
    {"ShootAtTarget", "ChangeTarget", "WaitForBetterShot", "LookingForEnemy",
     "MoveToTarget", "RouteRunner", "RunningRoute"}

EBotTypes ==
    {"StayAtHome", "Chase", "Offense", "LO", "RouteRunner", "StationaryDefense"}

EAIRouteState ==
    {"NoRouteSelected", "MovingToRouteStart", "RunningRoute", "RouteFinished",
     "AbandonedRoute"}

EAIMoveTargetTypes ==
    {"RouteStart", "FriendlyStand", "EnemyStand", "FriendlyFlag", "EnemyFlag",
     "EnemyTarget"}

EAIFlagStates ==
    {"BothFlagsHome", "EnemyFlagTakenFriendlySafe", "FriendlyTakenEnemyHome",
     "Standoff"}

EBotAccuracyLevels == {"Horrible", "Decent", "Good", "Perfect"}

\* the enemy characters of the world, and the null pointer
Targets == {"t1", "t2"}
NullTarget == "nullptr"

(***************************************************************************)
(* The world the bot lives in (external collaborators)                     *)
(***************************************************************************)
\* FVector::ZeroVector on the model's line
ZeroVector == 0
\* where the two flag stands (AMACTFFlagBase actors) of the map are
WorldStand == [Friendly |-> 1000, Enemy |-> 30000]
\* the places the bot can be at
Positions == {1000, 30000}
\* where a flag that is not home can be (carried by a player or dropped)
LoosePositions == {4000}
\* the routes the practice component knows: number of recorded markers, the
\* marker index of the flag grab, and the location of marker 0
Routes == [r1 |-> [NumMarkers |-> 4, GrabMarker |-> 1, Start |-> 4000]]
NoRoute == [NumMarkers |-> 0, GrabMarker |-> 0, Start |-> ZeroVector]
\* what the world reports about one enemy character when the bot looks at it:
\* its location, its speed (engine units per second), its height above the
\* ground and whether it carries a flag
TargetObs ==
    { [pos |-> 1200,  speed |-> 0,    hag |-> 0,    carrier |-> FALSE],
      [pos |-> 30000, speed |-> 5000, hag |-> 1000, carrier |-> TRUE] }
\* the clock values at which a bot component may be constructed, and by how
\* many seconds the clock advances at once: the world is looked at again
\* only after a pause longer than every delay the component waits for
StartTimes == {0}
Pauses == {20}

\* The({e : x \in {v}}) is e with x naming the value of v: the way the model
\* names an intermediate result of a handler (a local of the source)
The(S) == CHOOSE y \in S : TRUE

\* seconds to clock units, and weights to hundredths
Sec(s) == s
W(x) == 100 * x

Abs(x) == IF x < 0 THEN -x ELSE x
Min(a, b) == IF a < b THEN a ELSE b
Max(a, b) == IF a > b THEN a ELSE b
Clamp(x, lo, hi) == IF x < lo THEN lo ELSE IF x > hi THEN hi ELSE x


(***************************************************************************)
(* TMap<K, V> as the sequence of its pairs in insertion order.  TMap::Add  *)
(* replaces the value of a key that is already present and keeps its place.*)
(***************************************************************************)
MapHas(m, k) == \E i \in 1..Len(m) : m[i][1] = k
MapAdd(m, k, v) ==
    IF MapHas(m, k)
    THEN [i \in 1..Len(m) |-> IF m[i][1] = k THEN <<k, v>> ELSE m[i]]
    ELSE Append(m, <<k, v>>)
MapKeys(m) == {m[i][1] : i \in 1..Len(m)}
MapGet(m, k) == m[CHOOSE i \in 1..Len(m) : m[i][1] = k][2]

VARIABLES
    \* ---- the world ----
    now,                \* GetWorld()->GetTimeSeconds(), in seconds
    targets,            \* the enemy characters: validity, health, TimeOfDeath
    ParentCharacter,    \* TRUE iff the component has a parent character
    Controller,         \* the character's controller: "AI", "Player", "None"
    Weapon,             \* the equipped weapon: "RingLauncher", "Chaingun", "None"
    \* ---- the component ----
    BotConfig,          \* role, accuracy tier, route names, weapon flags
    bBotInitialized,
    bIsDead,
    AIState,
    GameState,
    RecentlySeenTargets,
    TimeOfTaskStart,
    TimeOfLastLookForEnemy,
    TimeOfLastMovementTargetChange,
    TimeOfLastSpawn,
    TimeOfLastShot,
    TimeOfLastWeaponChange,
    Trigger,            \* last SetTrigger(0, b) the component issued
    fatal,              \* a null pointer has been dereferenced
    \* ---- observation of the last handler that ran (history) ----
    cycle

world == <<now, targets, ParentCharacter, Controller, Weapon>>
times == <<TimeOfTaskStart, TimeOfLastLookForEnemy, TimeOfLastMovementTargetChange,
           TimeOfLastSpawn, TimeOfLastShot, TimeOfLastWeaponChange>>
vars == <<now, targets, ParentCharacter, Controller, Weapon,
          BotConfig, bBotInitialized, bIsDead, AIState, GameState,
          RecentlySeenTargets, TimeOfTaskStart, TimeOfLastLookForEnemy,
          TimeOfLastMovementTargetChange, TimeOfLastSpawn, TimeOfLastShot,
          TimeOfLastWeaponChange, Trigger, fatal, cycle>>

\* cycle when the last step was not a handler the claims observe
NoCycle == [op |-> "none"]


(***************************************************************************)
(* The component's mutable members, bundled so that the source's functions *)
(* are operators from bundle to bundle and a handler is their composition. *)
(* Weapon and Trigger are in the bundle because handlers act on them       *)
(* (SwitchToWeaponAtIndex, SetTrigger).  commands is not a member: it      *)
(* starts empty in every handler run and is not kept.                      *)
(***************************************************************************)
Self ==
    [AIState |-> AIState, GameState |-> GameState,
     RecentlySeenTargets |-> RecentlySeenTargets,
     TimeOfTaskStart |-> TimeOfTaskStart,
     TimeOfLastLookForEnemy |-> TimeOfLastLookForEnemy,
     TimeOfLastMovementTargetChange |-> TimeOfLastMovementTargetChange,
     TimeOfLastSpawn |-> TimeOfLastSpawn,
     TimeOfLastShot |-> TimeOfLastShot,
     TimeOfLastWeaponChange |-> TimeOfLastWeaponChange,
     bIsDead |-> bIsDead, Weapon |-> Weapon,
     Trigger |-> Trigger, fatal |-> fatal, commands |-> {}]

\* s.commands is the set of actuation commands (calls on the character, its
\* controller or the route playback) the handler run has issued so far
Issue(s, cmds) == [s EXCEPT !.commands = @ \cup cmds]

Commit(s) ==
    /\ AIState' = s.AIState
    /\ GameState' = s.GameState
    /\ RecentlySeenTargets' = s.RecentlySeenTargets
    /\ TimeOfTaskStart' = s.TimeOfTaskStart
    /\ TimeOfLastLookForEnemy' = s.TimeOfLastLookForEnemy
    /\ TimeOfLastMovementTargetChange' = s.TimeOfLastMovementTargetChange
    /\ TimeOfLastSpawn' = s.TimeOfLastSpawn
    /\ TimeOfLastShot' = s.TimeOfLastShot
    /\ TimeOfLastWeaponChange' = s.TimeOfLastWeaponChange
    /\ bIsDead' = s.bIsDead
    /\ Weapon' = s.Weapon
    /\ Trigger' = s.Trigger
    /\ fatal' = s.fatal

(***************************************************************************)
(* Accessors of the world.  in is what the world answers during one call   *)
(* of a handler: in.botPos the bot's location, in.flag the two AMACTFFlag  *)
(* actors (state and location), in.obs the enemies as seen.                *)
(***************************************************************************)
\* ParentCharacter->CarriedObject != nullptr: the bot carries the enemy flag
CarriedObject(in) == in.flag.Enemy.state = "HeldByBot"
\* AMACTFFlag::GetActorLocation: a carried flag is where its carrier is
FlagLocation(in, f) ==
    IF in.flag[f].state = "HeldByBot" THEN in.botPos ELSE in.flag[f].loc
FlagIsHome(in, f) == in.flag[f].state = "Home"
FlagIsHeld(in, f) == in.flag[f].state \in {"Held", "HeldByBot"}
\* IsValid(Target)
IsValidTarget(t) == t # NullTarget /\ targets[t].valid

DistanceBetweenTargets(MyLocation, TargetLocation) == Abs(MyLocation - TargetLocation)

\* in.obs[t] is what the world reports about character t during this call
DistanceToTarget(Target, in) ==
    IF Target = NullTarget THEN 9999999
    ELSE DistanceBetweenTargets(in.botPos, in.obs[Target].pos)


(***************************************************************************)
(* DetermineMoveLocation                                                   *)
(***************************************************************************)
\* the flag scan: GameState as the flag actors are now
\* the refresh done with the flag situation derived from the booleans of the
\* previous refresh instead of the ones just read
RefreshGameStateStaleSituation(s, in) ==
    LET eh == s.GameState.bEnemyFlagHome
        fh == s.GameState.bFriendlyFlagHome
    IN  [s.GameState EXCEPT
            !.EnemyFlagLocation = FlagLocation(in, "Enemy"),
            !.bEnemyFlagHome = FlagIsHome(in, "Enemy"),
            !.bEnemyFlagHeld = FlagIsHeld(in, "Enemy"),
            !.FriendlyFlagLocation = FlagLocation(in, "Friendly"),
            !.bFriendlyFlagHome = FlagIsHome(in, "Friendly"),
            !.bFriendlyFlagHeld = FlagIsHeld(in, "Friendly"),
            !.FlagState =
                IF eh /\ fh THEN "BothFlagsHome"
                ELSE IF ~eh /\ fh THEN "EnemyFlagTakenFriendlySafe"
                ELSE IF eh /\ ~fh THEN "FriendlyTakenEnemyHome"
                ELSE "Standoff"]

RefreshGameState(s, in) ==
    LET eh == FlagIsHome(in, "Enemy")
        fh == FlagIsHome(in, "Friendly")
    IN  [s.GameState EXCEPT
            !.EnemyFlagLocation = FlagLocation(in, "Enemy"),
            !.bEnemyFlagHome = eh,
            !.bEnemyFlagHeld = FlagIsHeld(in, "Enemy"),
            !.FriendlyFlagLocation = FlagLocation(in, "Friendly"),
            !.bFriendlyFlagHome = fh,
            !.bFriendlyFlagHeld = FlagIsHeld(in, "Friendly"),
            !.FlagState =
                IF eh /\ fh THEN "BothFlagsHome"
                ELSE IF ~eh /\ fh THEN "EnemyFlagTakenFriendlySafe"
                ELSE IF eh /\ ~fh THEN "FriendlyTakenEnemyHome"
                ELSE "Standoff"]

Dest(type, loc) == [type |-> type, loc |-> loc]

\* the per-role default destination; d is the destination so far, G the refreshed
\* game state, dE and dF the distances to the enemy and the friendly flag
RoleDestination(d, BotType, G, holding, dE, dF) ==
    LET d1 == IF holding THEN Dest("FriendlyStand", G.FriendlyStandLocation) ELSE d
        d2 == IF ~holding /\ BotType = "Chase"
              THEN Dest("FriendlyFlag", G.FriendlyFlagLocation) ELSE d1
        d3 == IF ~holding /\ BotType \in {"Offense", "LO"}
              THEN IF ~G.bEnemyFlagHome /\ ~G.bEnemyFlagHeld /\ dE < 5000
                   THEN Dest("EnemyFlag", G.EnemyFlagLocation)
                   ELSE IF ~G.bFriendlyFlagHeld /\ ~G.bFriendlyFlagHome /\ dF < 5000
                   THEN Dest("FriendlyFlag", G.FriendlyFlagLocation)
                   ELSE IF G.FlagState = "Standoff"
                   THEN Dest("FriendlyFlag", G.FriendlyFlagLocation)
                   ELSE IF BotType = "Offense"
                   THEN Dest("EnemyFlag", G.EnemyFlagLocation)
                   ELSE IF G.FlagState = "EnemyFlagTakenFriendlySafe"
                   THEN Dest("EnemyFlag", G.EnemyFlagLocation)
                   ELSE Dest("EnemyStand", G.EnemyStandLocation)
              ELSE d2
        d4 == IF BotType = "StayAtHome"
              THEN IF G.FlagState = "Standoff"
                      \/ (G.FlagState = "EnemyFlagTakenFriendlySafe" /\ dE < 10000
                          /\ ~G.bEnemyFlagHeld)
                   THEN Dest("EnemyFlag", G.EnemyFlagLocation)
                   ELSE IF G.FlagState = "FriendlyTakenEnemyHome" /\ dF < 10000
                   THEN Dest("FriendlyFlag", G.FriendlyFlagLocation)
                   ELSE Dest("FriendlyStand", G.FriendlyStandLocation)
              ELSE d3
    IN  d4

\* "if we are relatively close to where we want to be and have a target, go for
\* our target"
TargetChaseOverride(d, CurrentTarget, TargetDistance, in) ==
    IF CurrentTarget # NullTarget /\ TargetDistance < 20000
       /\ DistanceBetweenTargets(in.botPos, d.loc) < 10000
    THEN Dest("EnemyTarget", in.obs[CurrentTarget].pos)
    ELSE d

FriendlyFlagOverrideDistance(BotType) ==
    IF BotType = "Chase" THEN 15000
    ELSE IF BotType = "StayAtHome" THEN 10000 ELSE 5000
EnemyFlagOverrideDistance(BotType) ==
    IF BotType = "StayAtHome" THEN 15000 ELSE 5000

\* the loose-flag overrides giving way to a destination already set to the
\* current target
LooseFlagOverrideYieldsToTarget(d, BotType, G, dE, dF) ==
    LET d1 == IF dF < FriendlyFlagOverrideDistance(BotType) /\ ~G.bFriendlyFlagHeld
                 /\ G.FlagState \in {"FriendlyTakenEnemyHome", "Standoff"}
              THEN Dest("FriendlyFlag", G.FriendlyFlagLocation) ELSE d
    IN  IF d.type = "EnemyTarget" THEN d
        ELSE IF dE < EnemyFlagOverrideDistance(BotType) /\ ~G.bEnemyFlagHeld
           /\ G.FlagState \in {"EnemyFlagTakenFriendlySafe", "Standoff"}
        THEN Dest("EnemyFlag", G.EnemyFlagLocation) ELSE d1

\* "if the flag is in the field, we can care about that most, usually"
LooseFlagOverride(d, BotType, G, dE, dF) ==
    LET d1 == IF dF < FriendlyFlagOverrideDistance(BotType) /\ ~G.bFriendlyFlagHeld
                 /\ G.FlagState \in {"FriendlyTakenEnemyHome", "Standoff"}
              THEN Dest("FriendlyFlag", G.FriendlyFlagLocation) ELSE d
    IN  IF dE < EnemyFlagOverrideDistance(BotType) /\ ~G.bEnemyFlagHeld
           /\ G.FlagState \in {"EnemyFlagTakenFriendlySafe", "Standoff"}
        THEN Dest("EnemyFlag", G.EnemyFlagLocation) ELSE d1

\* "If we have the flag and can cap, we always try to cap"
CapOverride(d, G, holding) ==
    IF holding /\ G.bFriendlyFlagHome
    THEN Dest("FriendlyStand", G.FriendlyStandLocation) ELSE d

DetermineMoveLocation(s, in) ==
    IF ~ParentCharacter THEN s
    ELSE
    LET A == s.AIState
        TargetDistance == DistanceToTarget(A.CurrentTarget, in)
        OriginalMoveLocationType == A.MoveTargetType
    IN  IF BotConfig.BotType = "Offense" /\ A.RouteState = "MovingToRouteStart"
        THEN [s EXCEPT !.AIState.MoveTargetType = "RouteStart",
                       !.AIState.DesiredMoveLocation = A.RouteStartLocation]
        ELSE
        The({
        LET dE == DistanceBetweenTargets(in.botPos, G.EnemyFlagLocation)
            dF == DistanceBetweenTargets(in.botPos, G.FriendlyFlagLocation)
            holding == CarriedObject(in)
            d0 == Dest(OriginalMoveLocationType, ZeroVector)
        IN  The({The({The({The({
            [s EXCEPT !.GameState = G,
                      !.AIState.bIsHoldingFlag = holding,
                      !.AIState.MoveTargetType = d4.type,
                      !.AIState.DesiredMoveLocation = d4.loc,
                      !.TimeOfLastMovementTargetChange =
                          IF OriginalMoveLocationType # d4.type THEN now ELSE @]
            : d4 \in {CapOverride(d3, G, holding)} })
            : d3 \in {LooseFlagOverride(d2, BotConfig.BotType, G, dE, dF)} })
            : d2 \in {TargetChaseOverride(d1, A.CurrentTarget, TargetDistance, in)} })
            : d1 \in {RoleDestination(d0, BotConfig.BotType, G, holding, dE, dF)} })
        : G \in {RefreshGameState(s, in)} })


(***************************************************************************)
(* Death, routes                                                           *)
(***************************************************************************)
OnDiedOf(s) ==
    [s EXCEPT !.AIState.RouteState = "NoRouteSelected",
              !.AIState.CurrentTarget = NullTarget,
              !.bIsDead = TRUE,
              !.RecentlySeenTargets = <<>>]

\* UMAPracticeComponent::GetRouteTrailByName: the recorded route of that name,
\* an empty trail when there is none
GetRouteTrailByName(name) ==
    IF name \in DOMAIN Routes THEN Routes[name] ELSE NoRoute

\* in.route is the index FMath::RandRange draws
DetermineRouteToRun(s, in) ==
    IF Len(BotConfig.RouteTrailNames) = 0 THEN s
    ELSE IF Controller # "AI" THEN s
    ELSE LET CurrentRoute == GetRouteTrailByName(BotConfig.RouteTrailNames[in.route])
         IN  [s EXCEPT !.AIState.CurrentRoute = CurrentRoute,
                       !.AIState.RouteStartLocation =
                           IF CurrentRoute.NumMarkers > 0 THEN CurrentRoute.Start ELSE @,
                       !.AIState.RouteState = "MovingToRouteStart"]

StartRouteFollow(s) ==
    IF s.AIState.IsTaskInitialized \/ s.AIState.CurrentRoute.NumMarkers < 1 THEN s
    ELSE IF Controller # "AI" THEN s
    ELSE Issue([s EXCEPT !.AIState.IsTaskInitialized = TRUE,
                         !.AIState.RouteState = "RunningRoute",
                         !.AIState.CurrentTask = "RunningRoute"],
               {"MovePawnOnRoutePath"})

(***************************************************************************)
(* Target evaluation                                                       *)
(***************************************************************************)
\* the score in hundredths.  Health is in [0, 200]; speed * 0.036 is the speed
\* in kph, so (200 - kph) / 5 is 4000 - 72 * speed / 100 hundredths
GetTargetFocusScore(Target, CurrentTarget, in) ==
    IF Target = NullTarget \/ ~targets[Target].valid THEN 0
    ELSE (IF Target = CurrentTarget THEN W(30) ELSE 0)
         + (200 - targets[Target].Health) * 10
         + (4000 - (72 * in.obs[Target].speed) \div 100)
         + (IF in.obs[Target].hag < 200 THEN W(30) ELSE 0)
         + Clamp(10000 - DistanceToTarget(Target, in), W(-100), W(40))
         + (IF in.obs[Target].carrier THEN W(50) ELSE 0)

\* the rate limit with the Horrible tier waiting 4 seconds instead of 6
FiringAllowedHorribleAfterFour(AccuracyTier, bIsChaingun, TimeSinceLastShot, heat) ==
    IF ~bIsChaingun
    THEN CASE AccuracyTier \in {"Horrible", "Decent"} -> ~(TimeSinceLastShot < Sec(4))
           [] AccuracyTier = "Good" -> ~(TimeSinceLastShot < Sec(2))
           [] OTHER -> TRUE
    ELSE CASE AccuracyTier = "Horrible" -> ~(heat > 10)
           [] AccuracyTier = "Decent" -> ~(heat > 20)
           [] AccuracyTier = "Good" -> ~(heat > 40)
           [] OTHER -> TRUE

(***************************************************************************)
(* AimAtTarget: the pair <<bundle after the call, returned bool>>          *)
(***************************************************************************)
\* the accuracy tier's gate on firing; in.heat is Weapon->Heat in hundredths
FiringAllowed(AccuracyTier, bIsChaingun, TimeSinceLastShot, heat) ==
    IF ~bIsChaingun
    THEN CASE AccuracyTier = "Horrible" -> ~(TimeSinceLastShot < Sec(6))
           [] AccuracyTier = "Decent"   -> ~(TimeSinceLastShot < Sec(4))
           [] AccuracyTier = "Good"     -> ~(TimeSinceLastShot < Sec(2))
           [] OTHER -> TRUE
    ELSE CASE AccuracyTier = "Horrible" -> ~(heat > 10)
           [] AccuracyTier = "Decent"   -> ~(heat > 20)
           [] AccuracyTier = "Good"     -> ~(heat > 40)
           [] OTHER -> TRUE

\* the line-of-sight test at 1414: the target counts as hidden when the traced
\* hit point is more than 100 units farther from the bot than the aim spot
CanSeeTarget(DistanceToIntersectPoint, DistanceToAimSpot) ==
    ~((DistanceToIntersectPoint - 100) > DistanceToAimSpot)

\* AimAtTarget with the shot leaving bPendingWeaponFire set
AimAtTargetKeepsPending(s, FireWeapon, in) ==
    LET cur == s.AIState.CurrentTarget IN
    IF cur = NullTarget \/ ~ParentCharacter \/ Controller = "None"
       \/ targets[cur].Health = 0 \/ s.Weapon = "None"
    THEN <<IF ParentCharacter
           THEN Issue([s EXCEPT !.Trigger = FALSE], {"SetTrigger(false)"}) ELSE s,
           FALSE>>
    ELSE
    LET bIsChaingun == s.Weapon = "Chaingun"
        TimeSinceLastShot == now - s.TimeOfLastShot
        bShouldFireWeapon ==
            /\ FireWeapon /\ BotConfig.bBotShoots
            /\ FiringAllowed(BotConfig.AccuracyLevel, bIsChaingun, TimeSinceLastShot, in.heat)
            /\ in.weaponReady
        s1 == IF ~bShouldFireWeapon
              THEN Issue(s, {"SetControlRotation", "SetActorRotation"}) ELSE s
    IN  IF ~CanSeeTarget(in.trace.hit, in.trace.aim)
        THEN <<Issue([s1 EXCEPT !.Trigger = FALSE], {"SetTrigger(false)"}), FALSE>>
        ELSE IF ~bShouldFireWeapon THEN <<s1, TRUE>>
        ELSE IF in.aimOK \/ bIsChaingun
        THEN <<Issue([s1 EXCEPT !.Trigger = TRUE, !.TimeOfLastShot = now,
                                !.AIState.bPendingWeaponFire = TRUE],
                     {"SetControlRotation", "SetActorRotation", "SetTrigger(true)"}),
               TRUE>>
        ELSE <<Issue([s1 EXCEPT !.AIState.bPendingWeaponFire = TRUE],
                     {"SetControlRotation", "SetActorRotation"}), TRUE>>

\* in.trace holds the two distances the call measures: aim, from the bot to
\* the aim spot, and hit, from the bot to the point the line trace hit
AimAtTarget(s, FireWeapon, in) ==
    LET cur == s.AIState.CurrentTarget IN
    IF cur = NullTarget \/ ~ParentCharacter \/ Controller = "None"
       \/ targets[cur].Health = 0 \/ s.Weapon = "None"
    THEN <<IF ParentCharacter
           THEN Issue([s EXCEPT !.Trigger = FALSE], {"SetTrigger(false)"}) ELSE s,
           FALSE>>
    ELSE
    LET bIsChaingun == s.Weapon = "Chaingun"
        TimeSinceLastShot == now - s.TimeOfLastShot
        bShouldFireWeapon ==
            /\ FireWeapon /\ BotConfig.bBotShoots
            /\ FiringAllowed(BotConfig.AccuracyLevel, bIsChaingun, TimeSinceLastShot, in.heat)
            /\ in.weaponReady
        \* "we want to look at what we shot at, not at our move target"
        s1 == IF ~bShouldFireWeapon
              THEN Issue(s, {"SetControlRotation", "SetActorRotation"}) ELSE s
    IN  IF ~CanSeeTarget(in.trace.hit, in.trace.aim)
        THEN <<Issue([s1 EXCEPT !.Trigger = FALSE], {"SetTrigger(false)"}), FALSE>>
        ELSE IF ~bShouldFireWeapon THEN <<s1, TRUE>>
        ELSE IF in.aimOK \/ bIsChaingun
        THEN <<Issue([s1 EXCEPT !.Trigger = TRUE, !.TimeOfLastShot = now,
                                !.AIState.bPendingWeaponFire = FALSE],
                     {"SetControlRotation", "SetActorRotation", "SetTrigger(true)"}),
               TRUE>>
        ELSE <<Issue([s1 EXCEPT !.AIState.bPendingWeaponFire = TRUE],
                     {"SetControlRotation", "SetActorRotation"}), TRUE>>


(***************************************************************************)
(* DetermineCurrentTask.  A context c is the bundle c.s, the TaskWeights   *)
(* map c.tw built so far and c.exit, "respawn" once the cycle has ended in *)
(* Suicide / OnDied.                                                       *)
(***************************************************************************)
Ctx(s, tw, exit) == [s |-> s, tw |-> tw, exit |-> exit]
AddWeight(c, task, weight) == [c EXCEPT !.tw = MapAdd(c.tw, task, weight)]
\* AIPC->Suicide(); OnDied(); return
Respawn(c) == [c EXCEPT !.s = Issue(OnDiedOf(c.s), {"Suicide"}), !.exit = "respawn"]

\* the teleport-assist test
CloseEnoughToStartRoute(DistanceToMoveLocation, TimeSinceLastMovementChange) ==
    /\ DistanceToMoveLocation
          < TimeSinceLastMovementChange * TimeSinceLastMovementChange * 10
    /\ DistanceToMoveLocation < 5000

OffenseMovingToRouteStart(c, DistanceToMoveLocation, TimeSinceLastMovementChange) ==
    IF c.s.AIState.RouteState # "MovingToRouteStart" THEN c
    ELSE IF c.s.AIState.MoveTargetType = "RouteStart"
            /\ CloseEnoughToStartRoute(DistanceToMoveLocation, TimeSinceLastMovementChange)
    THEN [c EXCEPT !.s = StartRouteFollow(c.s)]
    ELSE AddWeight(c, "MoveToTarget", W(70))

\* the route block marking a route left at its end or past the grab as
\* finished
OffenseRunningRouteFinishes(c, in) ==
    IF c.s.AIState.RouteState # "RunningRoute" THEN c
    ELSE LET Num == c.s.AIState.CurrentRoute.NumMarkers
             priorMarkerNumber == Clamp(in.CurrentMarkerIndex - 1, 0, Num)
             GrabMarker == c.s.AIState.CurrentRoute.GrabMarker
         IN  IF (priorMarkerNumber > GrabMarker /\ ~CarriedObject(in))
                \/ priorMarkerNumber = Num - 2
             THEN [c EXCEPT !.s = Issue([c.s EXCEPT !.AIState.RouteState = "RouteFinished"],
                                        {"EndRoutePathPlayback"})]
             ELSE AddWeight(c, "RunningRoute", W(170))

\* in.CurrentMarkerIndex is PracticeComponent->CurrentMarkerIndex
OffenseRunningRoute(c, in) ==
    IF c.s.AIState.RouteState # "RunningRoute" THEN c
    ELSE LET Num == c.s.AIState.CurrentRoute.NumMarkers
             priorMarkerNumber == Clamp(in.CurrentMarkerIndex - 1, 0, Num)
             GrabMarker == c.s.AIState.CurrentRoute.GrabMarker
         IN  IF (priorMarkerNumber > GrabMarker /\ ~CarriedObject(in))
                \/ priorMarkerNumber = Num - 2
             THEN [c EXCEPT !.s = Issue([c.s EXCEPT !.AIState.RouteState = "AbandonedRoute"],
                                        {"EndRoutePathPlayback"})]
             ELSE AddWeight(c, "RunningRoute", W(170))

OffenseRouteFinished(c, in, DistanceToMoveLocation) ==
    IF c.s.AIState.RouteState # "RouteFinished" THEN c
    ELSE IF c.s.AIState.MoveTargetType = "FriendlyStand" /\ c.s.AIState.bIsHoldingFlag
    THEN IF c.s.GameState.FlagState = "EnemyFlagTakenFriendlySafe"
         THEN AddWeight(c, "MoveToTarget", W(200))
         ELSE AddWeight(c, "MoveToTarget", Clamp(DistanceToMoveLocation - 500, W(15), W(150)))
    ELSE Respawn(c)

OffenseAbandonedRoute(c, in, DistanceToMoveLocation) ==
    IF c.s.AIState.RouteState # "AbandonedRoute" THEN c
    ELSE IF c.s.AIState.bIsHoldingFlag
            /\ (DistanceToMoveLocation > 3000 \/ c.s.GameState.bFriendlyFlagHome)
    THEN AddWeight(c, "MoveToTarget", W(200))
    ELSE IF now - c.s.TimeOfLastSpawn > Sec(10) /\ ~c.s.AIState.bIsHoldingFlag
            /\ c.s.GameState.bEnemyFlagHome
    THEN Respawn(c)
    ELSE AddWeight(c, "MoveToTarget", W(20))

\* the four ifs on RouteState, in the order of the source
OffenseWeights(c, in, DistanceToMoveLocation, TimeSinceLastMovementChange) ==
    The({The({The({
        IF c3.exit = "respawn" THEN c3
        ELSE OffenseAbandonedRoute(c3, in, DistanceToMoveLocation)
        : c3 \in {OffenseRouteFinished(c2, in, DistanceToMoveLocation)} })
        : c2 \in {OffenseRunningRoute(c1, in)} })
        : c1 \in {OffenseMovingToRouteStart(c, DistanceToMoveLocation,
                                            TimeSinceLastMovementChange)} })

\* the Chase weights with the near-flag distance mistyped as 1000
ChaseWeightsNearIs1000(c, in, DistanceToMoveLocation) ==
    IF c.s.AIState.MoveTargetType = "FriendlyFlag" /\ ~c.s.GameState.bFriendlyFlagHome
    THEN IF DistanceToMoveLocation < 1000 \/ c.s.AIState.CurrentTarget = NullTarget
         THEN AddWeight(c, "MoveToTarget", W(200))
         ELSE AddWeight(c, "MoveToTarget", W(70))
    ELSE IF DistanceToMoveLocation > 20000 /\ c.s.GameState.bFriendlyFlagHome
    THEN Respawn(c)
    ELSE IF DistanceToMoveLocation > 500
    THEN AddWeight(c, "MoveToTarget", Clamp(DistanceToMoveLocation - 500, W(5), W(110)))
    ELSE c

ChaseWeights(c, in, DistanceToMoveLocation) ==
    IF c.s.AIState.MoveTargetType = "FriendlyFlag" /\ ~c.s.GameState.bFriendlyFlagHome
    THEN IF DistanceToMoveLocation < 10000 \/ c.s.AIState.CurrentTarget = NullTarget
         THEN AddWeight(c, "MoveToTarget", W(200))
         ELSE AddWeight(c, "MoveToTarget", W(70))
    ELSE IF DistanceToMoveLocation > 20000 /\ c.s.GameState.bFriendlyFlagHome
    THEN Respawn(c)
    ELSE IF DistanceToMoveLocation > 500
    THEN AddWeight(c, "MoveToTarget", Clamp(DistanceToMoveLocation - 500, W(5), W(110)))
    ELSE c

LOWeights(c, DistanceToMoveLocation) ==
    IF c.s.AIState.MoveTargetType # "EnemyStand" \/ DistanceToMoveLocation > 400
    THEN IF c.s.AIState.MoveTargetType = "FriendlyFlag"
            /\ ~c.s.GameState.bFriendlyFlagHeld /\ ~c.s.GameState.bFriendlyFlagHome
         THEN AddWeight(c, "MoveToTarget", Clamp(DistanceToMoveLocation - 500, W(10), W(400)))
         ELSE AddWeight(c, "MoveToTarget", Clamp(DistanceToMoveLocation - 500, W(30), W(40)))
    ELSE AddWeight(c, "LookingForEnemy", W(10))

StayAtHomeWeights(c, DistanceToMoveLocation) ==
    IF c.s.AIState.MoveTargetType = "EnemyFlag" /\ ~c.s.GameState.bEnemyFlagHeld
       /\ ~c.s.AIState.bIsHoldingFlag
    THEN AddWeight(c, "MoveToTarget", Clamp(DistanceToMoveLocation - 50, W(65), W(150)))
    ELSE IF c.s.AIState.MoveTargetType = "FriendlyFlag" /\ ~c.s.GameState.bFriendlyFlagHome
            /\ ~c.s.GameState.bFriendlyFlagHeld /\ ~c.s.AIState.bIsHoldingFlag
    THEN AddWeight(c, "MoveToTarget", Clamp(DistanceToMoveLocation - 500, W(20), W(100)))
    ELSE AddWeight(AddWeight(c, "MoveToTarget",
                             Clamp(DistanceToMoveLocation - 500, W(5), W(110))),
                   "LookingForEnemy", W(6))

RoleWeights(c, in, DistanceToMoveLocation, TimeSinceLastMovementChange) ==
    CASE BotConfig.BotType = "Offense" ->
            OffenseWeights(c, in, DistanceToMoveLocation, TimeSinceLastMovementChange)
      [] BotConfig.BotType = "Chase" -> ChaseWeights(c, in, DistanceToMoveLocation)
      [] BotConfig.BotType = "LO" -> LOWeights(c, DistanceToMoveLocation)
      [] BotConfig.BotType = "StayAtHome" -> StayAtHomeWeights(c, DistanceToMoveLocation)
      [] OTHER -> c

\* "increase our desire to look for dudes by 5 every second", 3 when "we have
\* already been looking recently" or have not "been doing something for long"
\* the look weight without the bias after a change of task
LookForEnemyTaskWeightUnbiased(LastTask, TimeSinceTaskChange, TimeSinceLastCheckedForEnemies) ==
    W(5) * TimeSinceLastCheckedForEnemies

LookForEnemyTaskWeight(LastTask, TimeSinceTaskChange, TimeSinceLastCheckedForEnemies) ==
    IF (LastTask # "LookingForEnemy" /\ TimeSinceTaskChange <= Sec(2))
       \/ (LastTask = "LookingForEnemy" /\ TimeSinceTaskChange > Sec(2))
    THEN W(3)
    ELSE W(5) * TimeSinceLastCheckedForEnemies

\* the pruning pass: entries of valid characters seen less than 5 s ago (every
\* character of Targets is a BP_LightCharacter)
ValidRecentlySeenTargets(RST) ==
    LET Keep(e) == e[1] # NullTarget /\ targets[e[1]].valid /\ now - e[2] < Sec(5)
    IN  SelectSeq(RST, Keep)

\* the scan for the most desirable target, in the map's iteration order:
\* <<MostDesirableTarget, HighestFocusScore>>
RECURSIVE MostDesirable(_, _, _, _, _)
MostDesirable(RST, i, best, CurrentTarget, in) ==
    IF i > Len(RST) THEN best
    ELSE The({
             MostDesirable(RST, i + 1,
                           IF FocusScoreForTarget > best[2]
                           THEN <<RST[i][1], FocusScoreForTarget>> ELSE best,
                           CurrentTarget, in)
             : FocusScoreForTarget \in {GetTargetFocusScore(RST[i][1], CurrentTarget, in)} })

TargetWeights(c, in, LastTask, TimeSinceTaskChange, TimeSinceLastCheckedForEnemies) ==
    IF Len(c.s.RecentlySeenTargets) = 0 /\ c.s.AIState.CurrentTarget = NullTarget
    THEN AddWeight(c, "LookingForEnemy",
                   LookForEnemyTaskWeight(LastTask, TimeSinceTaskChange,
                                          TimeSinceLastCheckedForEnemies))
    ELSE IF Len(c.s.RecentlySeenTargets) > 0
    THEN LET cur == c.s.AIState.CurrentTarget IN
         The({The({
             LET c1 == [c EXCEPT !.s.RecentlySeenTargets = RST]
             IN  IF best[1] = cur
                 THEN The({
                      LET c2 == [c1 EXCEPT !.s = aim[1]]
                      IN  IF aim[2] THEN AddWeight(c2, "ShootAtTarget", best[2]) ELSE c2
                      : aim \in {AimAtTarget(c1.s, FALSE, in)} })
                 ELSE [AddWeight(c1, "ChangeTarget", best[2])
                          EXCEPT !.s.AIState.CurrentTarget = best[1]]
             : best \in {MostDesirable(RST, 1, <<cur, 0>>, cur, in)} })
             : RST \in {ValidRecentlySeenTargets(c.s.RecentlySeenTargets)} })
    ELSE [c EXCEPT !.s = Issue([c.s EXCEPT !.Trigger = FALSE], {"SetTrigger(false)"})]

\* "if we have the flag and the flag is home, nothing else matters"
CapWeight(c) ==
    IF c.s.AIState.bIsHoldingFlag /\ c.s.GameState.bFriendlyFlagHome
    THEN AddWeight(c, "MoveToTarget", W(9001))
    ELSE c

\* the scan with MaxTaskWeight never raised: the last candidate above the
\* starting weight wins
MaxTaskWeightNotRaised(tw, i, best) ==
    LET P == {k \in i..Len(tw) : tw[k][2] > best[2]}
    IN  IF P = {} THEN best
        ELSE LET k == CHOOSE k \in P : \A j \in P : j <= k
             IN  <<tw[k][1], tw[k][2]>>

\* the scan taking a candidate whose weight equals MaxTaskWeight
RECURSIVE MaxTaskWeightScanTakesEqual(_, _, _)
MaxTaskWeightScanTakesEqual(tw, i, best) ==
    IF i > Len(tw) THEN best
    ELSE The({ MaxTaskWeightScanTakesEqual(tw, i + 1, b)
               : b \in {IF tw[i][2] >= best[2] THEN <<tw[i][1], tw[i][2]>> ELSE best} })

\* the max-weight scan over TaskWeights, in the map's iteration order, from
\* MaxTaskWeight = 0 and the default task: <<CurrentTask, MaxTaskWeight>>
RECURSIVE MaxTaskWeightScan(_, _, _)
MaxTaskWeightScan(tw, i, best) ==
    IF i > Len(tw) THEN best
    ELSE The({ MaxTaskWeightScan(tw, i + 1, b)
               : b \in {IF tw[i][2] > best[2] THEN <<tw[i][1], tw[i][2]>> ELSE best} })

\* the selector without the check at the stands
AntiStallOmitted(CurrentTask, A, G, DistanceToMoveLocation) == CurrentTask

\* "if we are moving to the stand but can't actually DO anything there"
AntiStall(CurrentTask, A, G, DistanceToMoveLocation) ==
    IF CurrentTask = "MoveToTarget" /\ DistanceToMoveLocation < 300
       /\ ((A.MoveTargetType = "EnemyStand" /\ ~G.bEnemyFlagHome)
           \/ (A.MoveTargetType = "FriendlyStand"
               /\ (~A.bIsHoldingFlag \/ ~G.bFriendlyFlagHome)))
    THEN "LookingForEnemy"
    ELSE CurrentTask

\* the end of the cycle without the stamp of the task change
FinishCycleKeepsStamp(s, LastTask) ==
    LET changed == s.AIState.CurrentTask # LastTask
    IN  [s EXCEPT !.AIState.IsTaskInitialized = IF changed THEN FALSE ELSE @,
                  !.RecentlySeenTargets = <<>>]

\* the end of the cycle without RecentlySeenTargets.Reset()
FinishCycleKeepsMemory(s, LastTask) ==
    LET changed == s.AIState.CurrentTask # LastTask
    IN  [s EXCEPT !.TimeOfTaskStart = IF changed THEN now ELSE @,
                  !.AIState.IsTaskInitialized = IF changed THEN FALSE ELSE @]

\* the end of the cycle: the task-change bookkeeping and the memory reset
FinishCycle(s, LastTask) ==
    LET changed == s.AIState.CurrentTask # LastTask
    IN  [s EXCEPT !.TimeOfTaskStart = IF changed THEN now ELSE @,
                  !.AIState.IsTaskInitialized = IF changed THEN FALSE ELSE @,
                  !.RecentlySeenTargets = <<>>]

\* the pending shot without "but never for more than a second"
PendingFireForcesUnbounded(bPendingWeaponFire, TimeSinceTaskChange) ==
    bPendingWeaponFire

\* "if we have decided to shoot but haven't yet, continue looking towards our
\* shot. But never for more than a second"
PendingFireForces(bPendingWeaponFire, TimeSinceTaskChange) ==
    bPendingWeaponFire /\ TimeSinceTaskChange < Sec(1)


\* what one run of DetermineCurrentTask did: the bundle it leaves and, for the
\* properties, the locals of the run
Ran(s, path, LastTask, c, DistanceToMoveLocation, in) ==
    [s |-> s,
     obs |-> [op |-> "DetermineCurrentTask", path |-> path, LastTask |-> LastTask,
              TaskWeights |-> c.tw, DistanceToMoveLocation |-> DistanceToMoveLocation,
              commands |-> s.commands,
              botPos |-> in.botPos, CarriedObject |-> CarriedObject(in),
              bFriendlyFlagHome |-> FlagIsHome(in, "Friendly")]]

\* the first check of the selector, with the death of the bot left out
SelectorStopsIgnoresDeath(bDead) == ~ParentCharacter

\* the first check of the selector: no character, or the bot is dead
SelectorStops(bDead) == ~ParentCharacter \/ bDead

DetermineCurrentTaskOf(s0, in) ==
    LET LastTask == s0.AIState.CurrentTask
        none == Ctx(s0, <<>>, "")
    IN
    IF SelectorStops(s0.bIsDead) THEN Ran(s0, "guard", LastTask, none, 0, in)
    ELSE
    LET s1 == [s0 EXCEPT !.AIState.CurrentTask = "LookingForEnemy"]
        TimeSinceTaskChange == now - s0.TimeOfTaskStart
    IN
    \* AIPC->PracticeComponent with AIPC the failed cast of the controller
    IF Controller # "AI"
    THEN Ran([s1 EXCEPT !.fatal = TRUE], "fatal", LastTask, none, 0, in)
    ELSE IF BotConfig.BotType = "RouteRunner"
    THEN Ran([s1 EXCEPT !.AIState.CurrentTask = "RouteRunner",
                        !.RecentlySeenTargets = <<>>],
             "RouteRunner", LastTask, none, 0, in)
    ELSE IF PendingFireForces(s1.AIState.bPendingWeaponFire, TimeSinceTaskChange)
    THEN Ran([s1 EXCEPT !.RecentlySeenTargets = <<>>,
                        !.AIState.CurrentTask = "ShootAtTarget"],
             "pending", LastTask, none, 0, in)
    ELSE
    The({The({
    LET cur == s3.AIState.CurrentTarget
        \* "handle our target being dead so we can reset it"
        s4 == IF cur # NullTarget /\ (~targets[cur].valid \/ targets[cur].Health = 0)
              THEN [s3 EXCEPT !.AIState.CurrentTarget = NullTarget] ELSE s3
        TimeSinceLastCheckedForEnemies == now - s3.TimeOfLastLookForEnemy
        TimeSinceLastMovementChange == now - s3.TimeOfLastMovementTargetChange
        DistanceToMoveLocation ==
            DistanceBetweenTargets(in.botPos, s3.AIState.DesiredMoveLocation)
    IN
    The({
    IF c1.exit = "respawn" THEN Ran(c1.s, "respawn", LastTask, c1, DistanceToMoveLocation, in)
    ELSE
    The({The({
    LET scan == MaxTaskWeightScan(c3.tw, 1, <<c3.s.AIState.CurrentTask, 0>>)
        task == AntiStall(scan[1], c3.s.AIState, c3.s.GameState, DistanceToMoveLocation)
        s5 == [c3.s EXCEPT !.AIState.CurrentTask = task]
    IN  Ran(FinishCycle(s5, LastTask), "normal", LastTask, c3, DistanceToMoveLocation, in)
    : c3 \in {CapWeight(c2)} })
    : c2 \in {TargetWeights(c1, in, LastTask, TimeSinceTaskChange,
                            TimeSinceLastCheckedForEnemies)} })
    : c1 \in {RoleWeights(Ctx(s4, <<>>, ""), in, DistanceToMoveLocation,
                          TimeSinceLastMovementChange)} })
    : s3 \in {DetermineMoveLocation(s2, in)} })
    : s2 \in {IF BotConfig.BotType = "Offense" /\ s1.AIState.RouteState = "NoRouteSelected"
              THEN DetermineRouteToRun(s1, in) ELSE s1} })

(***************************************************************************)
(* SelectBestWeapon and the per-frame handlers                             *)
(***************************************************************************)
\* the two scores in hundredths: <<DiscWeight, ChaingunWeight>>
\* the weights with the chaingun penalised while the tier's cool-down since
\* the last weapon change is still running
WeaponWeightsPenaltyDuringCooldown(s, in) ==
    LET cur == s.AIState.CurrentTarget
        o == in.obs[cur]
        kph1000 == 36 * o.speed
        TargetDistance == DistanceToTarget(cur, in)
        TargetDistancePlusVelocity ==
            DistanceBetweenTargets(in.botPos, o.pos + kph1000 \div 1000)
        lowHealth == targets[cur].Health < 50
        Disc == W(1) + (IF lowHealth THEN W(5) ELSE 0)
                + (IF o.hag < 600 THEN W(30) ELSE 0)
                + (IF ~(TargetDistance > 10000) /\ TargetDistance < 3000 THEN W(20) ELSE 0)
                + (IF 10 * Abs(TargetDistancePlusVelocity - TargetDistance) > 8 * o.speed
                   THEN W(15) ELSE 0)
        Chain == (IF lowHealth THEN W(30) ELSE 0)
                 + (IF o.hag < 600 THEN 0 ELSE W(10))
                 + (IF kph1000 > 160000 THEN W(15) ELSE 0)
                 + (IF TargetDistance > 10000 THEN W(20) ELSE 0)
        Chain1 == IF BotConfig.bNoChaingun THEN W(-100) ELSE Chain
        Disc1 == IF BotConfig.bNoDisc THEN W(-100) ELSE Disc
        TimeSinceLastWeaponChange == now - s.TimeOfLastWeaponChange
        Chain2 == IF s.Weapon # "Chaingun" THEN Chain1
                  ELSE IF BotConfig.AccuracyLevel = "Horrible"
                          /\ TimeSinceLastWeaponChange <= Sec(2)
                  THEN Chain1 - W(50)
                  ELSE IF BotConfig.AccuracyLevel = "Decent"
                          /\ TimeSinceLastWeaponChange <= Sec(3)
                  THEN Chain1 - W(20)
                  ELSE Chain1
    IN  <<Disc1, Chain2>>

WeaponWeights(s, in) ==
    LET cur == s.AIState.CurrentTarget
        o == in.obs[cur]
        kph1000 == 36 * o.speed
        TargetDistance == DistanceToTarget(cur, in)
        TargetDistancePlusVelocity ==
            DistanceBetweenTargets(in.botPos, o.pos + kph1000 \div 1000)
        lowHealth == targets[cur].Health < 50
        Disc == W(1) + (IF lowHealth THEN W(5) ELSE 0)
                + (IF o.hag < 600 THEN W(30) ELSE 0)
                + (IF ~(TargetDistance > 10000) /\ TargetDistance < 3000 THEN W(20) ELSE 0)
                + (IF 10 * Abs(TargetDistancePlusVelocity - TargetDistance) > 8 * o.speed
                   THEN W(15) ELSE 0)
        Chain == (IF lowHealth THEN W(30) ELSE 0)
                 + (IF o.hag < 600 THEN 0 ELSE W(10))
                 + (IF kph1000 > 160000 THEN W(15) ELSE 0)
                 + (IF TargetDistance > 10000 THEN W(20) ELSE 0)
        Chain1 == IF BotConfig.bNoChaingun THEN W(-100) ELSE Chain
        Disc1 == IF BotConfig.bNoDisc THEN W(-100) ELSE Disc
        TimeSinceLastWeaponChange == now - s.TimeOfLastWeaponChange
        Chain2 == IF s.Weapon # "Chaingun" THEN Chain1
                  ELSE IF BotConfig.AccuracyLevel = "Horrible"
                          /\ TimeSinceLastWeaponChange > Sec(2)
                  THEN Chain1 - W(50)
                  ELSE IF BotConfig.AccuracyLevel = "Decent"
                          /\ TimeSinceLastWeaponChange > Sec(3)
                  THEN Chain1 - W(20)
                  ELSE Chain1
    IN  <<Disc1, Chain2>>

\* the decision with a tie going to the disc
SelectBestWeaponTieToDisc(s, in) ==
    LET cur == s.AIState.CurrentTarget IN
    IF cur = NullTarget \/ ~ParentCharacter \/ targets[cur].TimeOfDeath # 0
       \/ now - s.TimeOfLastWeaponChange < Sec(2)
    THEN s
    ELSE IF s.Weapon = "None" THEN [s EXCEPT !.fatal = TRUE]
    ELSE LET w == WeaponWeights(s, in)
         IN  IF w[1] >= w[2]
             THEN Issue([s EXCEPT !.TimeOfLastWeaponChange =
                                      IF s.Weapon = "Chaingun" THEN now ELSE @,
                                  !.Weapon = "RingLauncher"],
                        {"SwitchToWeaponAtIndex"})
             ELSE Issue([s EXCEPT !.TimeOfLastWeaponChange =
                                      IF s.Weapon = "RingLauncher" THEN now ELSE @,
                                  !.Weapon = "Chaingun"],
                        {"SwitchToWeaponAtIndex"})

\* the selection with a wait of one second between two changes
SelectBestWeaponAfterOneSecond(s, in) ==
    LET cur == s.AIState.CurrentTarget IN
    IF cur = NullTarget \/ ~ParentCharacter \/ targets[cur].TimeOfDeath # 0
       \/ now - s.TimeOfLastWeaponChange < Sec(1)
    THEN s
    ELSE IF s.Weapon = "None" THEN [s EXCEPT !.fatal = TRUE]
    ELSE LET w == WeaponWeights(s, in)
         IN  IF w[1] > w[2]
             THEN Issue([s EXCEPT !.TimeOfLastWeaponChange =
                                      IF s.Weapon = "Chaingun" THEN now ELSE @,
                                  !.Weapon = "RingLauncher"],
                        {"SwitchToWeaponAtIndex"})
             ELSE Issue([s EXCEPT !.TimeOfLastWeaponChange =
                                      IF s.Weapon = "RingLauncher" THEN now ELSE @,
                                  !.Weapon = "Chaingun"],
                        {"SwitchToWeaponAtIndex"})

SelectBestWeapon(s, in) ==
    LET cur == s.AIState.CurrentTarget IN
    IF cur = NullTarget \/ ~ParentCharacter \/ targets[cur].TimeOfDeath # 0
       \/ now - s.TimeOfLastWeaponChange < Sec(2)
    THEN s
    \* ParentCharacter->Weapon->GetName() with no weapon equipped
    ELSE IF s.Weapon = "None" THEN [s EXCEPT !.fatal = TRUE]
    ELSE LET w == WeaponWeights(s, in)
         IN  IF w[1] > w[2]
             THEN Issue([s EXCEPT !.TimeOfLastWeaponChange =
                                      IF s.Weapon = "Chaingun" THEN now ELSE @,
                                  !.Weapon = "RingLauncher"],
                        {"SwitchToWeaponAtIndex"})
             ELSE Issue([s EXCEPT !.TimeOfLastWeaponChange =
                                      IF s.Weapon = "RingLauncher" THEN now ELSE @,
                                  !.Weapon = "Chaingun"],
                        {"SwitchToWeaponAtIndex"})

ShootAtTarget(s, in) ==
    The({ IF s1.fatal THEN s1 ELSE AimAtTarget(s1, TRUE, in)[1]
          : s1 \in {SelectBestWeapon(s, in)} })

\* ChangeTarget asking AimAtTarget to fire, as ShootAtTarget does
ChangeTargetFires(s, in) == ShootAtTarget(s, in)

WaitForBetterShot(s, in) ==
    The({The({ IF s2.fatal THEN s2
               ELSE Issue([s2 EXCEPT !.Trigger = FALSE], {"SetTrigger(false)"})
          : s2 \in {SelectBestWeapon(s1, in)} })
          : s1 \in {AimAtTarget(s, FALSE, in)[1]} })

ChangeTarget(s, in) ==
    The({ Issue([s1 EXCEPT !.Trigger = FALSE], {"SetTrigger(false)"})
          : s1 \in {AimAtTarget(s, FALSE, in)[1]} })

LookForEnemies(s) ==
    Issue([s EXCEPT !.TimeOfLastLookForEnemy = now, !.Trigger = FALSE],
          {"SetTrigger(false)", "SetControlRotation", "SetActorRotation"})

\* the random strafing and jetting that follows the aiming handlers
MoveAround(s) ==
    IF ~ParentCharacter \/ Controller = "None" \/ BotConfig.BotType = "StationaryDefense"
    THEN s
    ELSE Issue(s, {"Move"})

\* the test before Skate(): near the ground, far from the destination, and
\* the distance to the destination plus the distance from the position
\* advanced by the velocity greater than the distance to the destination
ShouldSkate(HeightAboveGround, Location, Velocity, DesiredMoveLocation) ==
    LET DistanceToDesiredLocation == DistanceBetweenTargets(Location, DesiredMoveLocation)
        DistanceToTargetPlusVelocity ==
            DistanceToDesiredLocation
            + DistanceBetweenTargets(Location + Velocity, DesiredMoveLocation)
    IN  /\ HeightAboveGround < 100
        /\ DistanceToDesiredLocation > 1000
        /\ DistanceToTargetPlusVelocity > DistanceToDesiredLocation

\* the walk, ski and jet towards DesiredMoveLocation; in.heightAboveGround
\* and in.velocity are the bot's, "Move" stands for MoveForward and the jump
\* and jet commands
MoveToTarget(s, in) ==
    IF ~ParentCharacter \/ Controller = "None" THEN s
    ELSE Issue(s, {"SetControlRotation", "SetActorRotation", "Move"}
                  \cup (IF ShouldSkate(in.heightAboveGround, in.botPos, in.velocity,
                                       s.AIState.DesiredMoveLocation)
                        THEN {"Skate"} ELSE {"StopSkating"}))

RunRouteSimple(s) ==
    IF s.AIState.IsTaskInitialized \/ Len(BotConfig.RouteTrailNames) < 1 THEN s
    ELSE IF Controller # "AI" THEN s
    ELSE Issue([s EXCEPT !.AIState.IsTaskInitialized = TRUE],
               IF BotConfig.BotType = "RouteRunner" THEN {"MovePawnOnRoutePath"} ELSE {})

\* the tick without the hard force
ForceRouteRunnerOmitted(s) == s

\* "can tick before we actually determine AI state, so just hard force this to
\* always be correct"
ForceRouteRunner(s) ==
    IF BotConfig.BotType = "RouteRunner"
    THEN [s EXCEPT !.AIState.CurrentTask = "RouteRunner"] ELSE s

AndMoveAround(s) == IF s.fatal THEN s ELSE MoveAround(s)

\* the first check of the frame tick: no character, no controller, or dead
TickStops(bDead) == ~ParentCharacter \/ Controller = "None" \/ bDead

TickComponentOf(s0, in) ==
    IF TickStops(s0.bIsDead) THEN s0
    ELSE IF ~bBotInitialized
    \* AIPC->SetBotConfig(AIPC->BC) with AIPC the cast of the controller
    THEN IF Controller # "AI" THEN [s0 EXCEPT !.fatal = TRUE] ELSE s0
    ELSE
    The({The({
    LET task == s2.AIState.CurrentTask
    IN  CASE task = "ShootAtTarget" -> AndMoveAround(ShootAtTarget(s2, in))
          [] task = "ChangeTarget" -> AndMoveAround(ChangeTarget(s2, in))
          [] task = "WaitForBetterShot" -> AndMoveAround(WaitForBetterShot(s2, in))
          [] task = "LookingForEnemy" -> AndMoveAround(LookForEnemies(s2))
          [] task = "MoveToTarget" -> MoveToTarget(s2, in)
          [] task = "RouteRunner" -> RunRouteSimple(s2)
          [] OTHER -> s2
    : s2 \in {LET cur == s1.AIState.CurrentTarget
              IN  IF cur # NullTarget
                     /\ (~targets[cur].valid \/ targets[cur].TimeOfDeath # 0
                         \/ targets[cur].Health = 0)
                  THEN [s1 EXCEPT !.AIState.CurrentTarget = NullTarget] ELSE s1} })
    : s1 \in {ForceRouteRunner(s0)} })


(***************************************************************************)
(* Inputs of a handler run: what the world answers during the call.  An    *)
(* answer the run cannot read is fixed, so that equal runs are one step.   *)
(***************************************************************************)
DefaultObs == CHOOSE o \in TargetObs : o.pos = 1200
\* the line trace of AimAtTarget: it ends on the target (at the aim spot), or
\* on something 500 units before it, or 500 units behind it
Traces == [aim : {1000}, hit : {500, 1000, 1500}]
ClearTrace == [aim |-> 1000, hit |-> 1000]
\* in a match the trace ends on the target or behind it
SeenTraces == {tr \in Traces : tr.hit >= tr.aim}
RelevantTargets ==
    MapKeys(RecentlySeenTargets) \cup ({AIState.CurrentTarget} \ {NullTarget})
ObsInputs ==
    {o \in [Targets -> TargetObs] : \A t \in Targets \ RelevantTargets : o[t] = DefaultObs}
\* Weapon->Heat in hundredths
Heats == {0, 15, 30, 50}

\* the flag actors: home on the stand, carried by the bot (the enemy flag
\* only), carried by another player, or lying on the field; the model looks
\* at the matches in which at most one flag is away from both its stand and
\* the bot
FlagInputs ==
    LET F(f) == {[state |-> "Home", loc |-> WorldStand[f]]}
                \cup [state : {"Held", "Dropped"}, loc : LoosePositions]
    IN  {fl \in [Friendly : F("Friendly"),
                 Enemy : F("Enemy") \cup {[state |-> "HeldByBot", loc |-> ZeroVector]}] :
            fl.Friendly.state = "Home" \/ fl.Enemy.state \in {"Home", "HeldByBot"}}
HomeFlags == [f \in {"Friendly", "Enemy"} |-> [state |-> "Home", loc |-> WorldStand[f]]]

\* a cycle that returns before it looks at the world (dead bot, RouteRunner,
\* pending fire) is given one location and one view of the enemies
SelectorInputs ==
    LET early == bIsDead \/ BotConfig.BotType = "RouteRunner"
                 \/ PendingFireForces(AIState.bPendingWeaponFire, now - TimeOfTaskStart)
        running == BotConfig.BotType = "Offense" /\ AIState.RouteState = "RunningRoute"
    IN  [botPos : IF early THEN {WorldStand.Friendly} ELSE Positions,
         flag : IF bIsDead THEN {HomeFlags}
                ELSE IF early THEN {f \in FlagInputs : f.Friendly.state = "Home"
                                       /\ f.Enemy.state \in {"Home", "HeldByBot"}}
                ELSE FlagInputs,
         obs : IF early THEN {[t \in Targets |-> DefaultObs]} ELSE ObsInputs,
         trace : IF early \/ AIState.CurrentTarget = NullTarget
                 THEN {ClearTrace} ELSE SeenTraces,
         CurrentMarkerIndex : IF running THEN 1..4 ELSE {1},
         route : IF BotConfig.BotType = "Offense" /\ Len(BotConfig.RouteTrailNames) > 0
                 THEN 1..Len(BotConfig.RouteTrailNames) ELSE {1},
         aimOK : {FALSE}, weaponReady : {TRUE}, heat : {0}]

TickInputs ==
    LET aiming == AIState.CurrentTask \in {"ShootAtTarget", "ChangeTarget", "WaitForBetterShot"}
                  /\ AIState.CurrentTarget # NullTarget
        firing == aiming /\ AIState.CurrentTask = "ShootAtTarget"
    IN  [botPos : IF aiming THEN Positions ELSE {WorldStand.Friendly},
         flag : {HomeFlags},
         obs : IF aiming THEN ObsInputs ELSE {[t \in Targets |-> DefaultObs]},
         trace : IF aiming THEN SeenTraces ELSE {ClearTrace},
         CurrentMarkerIndex : {1}, route : {1},
         heightAboveGround : {0}, velocity : {0},
         aimOK : IF aiming THEN BOOLEAN ELSE {FALSE},
         weaponReady : IF firing THEN BOOLEAN ELSE {TRUE},
         heat : IF firing /\ Weapon = "Chaingun" THEN Heats ELSE {0}]

(***************************************************************************)
(* Initial state: the component as constructed (zeroed members; the task   *)
(* CurrentTask starts from, which the header sets, is a parameter), with   *)
(* the enemies of Present on the server                                    *)
(***************************************************************************)
\* every role, with a route to run and (the roles that run routes) without
\* one; the bots of one role shoot
BotConfigs ==
    {c \in [BotType : EBotTypes, AccuracyLevel : {"Perfect"},
            RouteTrailNames : {<<>>, <<"r1">>},
            bBotShoots : BOOLEAN, bNoChaingun : {TRUE}, bNoDisc : {FALSE}] :
        /\ c.RouteTrailNames = <<>> => c.BotType \in {"Offense", "RouteRunner"}
        /\ c.bBotShoots <=> c.BotType = "Chase"}

\* Configs: the configurations the designer may have set; Tasks: the values
\* CurrentTask may have before the first cycle; Present: the enemies on the
\* server (the others have left it); Owners: whether the component has its
\* character; Controllers: who possesses the character
InitWith(Configs, Tasks, Present, Owners, Controllers) ==
    /\ now \in StartTimes
    /\ targets = [t \in Targets |-> [valid |-> t \in Present,
                                    Health |-> 200, TimeOfDeath |-> 0]]
    /\ ParentCharacter \in Owners
    /\ Controller \in Controllers
    /\ Weapon = "RingLauncher"
    /\ BotConfig \in Configs
    /\ bBotInitialized = FALSE
    /\ bIsDead = FALSE
    /\ \E task \in Tasks, type \in {"RouteStart"} :
          AIState = [CurrentTask |-> task, CurrentTarget |-> NullTarget,
                     DesiredMoveLocation |-> ZeroVector, MoveTargetType |-> type,
                     RouteState |-> "NoRouteSelected", bIsHoldingFlag |-> FALSE,
                     bPendingWeaponFire |-> FALSE, IsTaskInitialized |-> FALSE,
                     RouteStartLocation |-> ZeroVector, CurrentRoute |-> NoRoute]
    /\ GameState = [EnemyStandLocation |-> ZeroVector, FriendlyStandLocation |-> ZeroVector,
                    EnemyFlagLocation |-> ZeroVector, FriendlyFlagLocation |-> ZeroVector,
                    bEnemyFlagHome |-> FALSE, bEnemyFlagHeld |-> FALSE,
                    bFriendlyFlagHome |-> FALSE, bFriendlyFlagHeld |-> FALSE,
                    FlagState |-> "BothFlagsHome"]
    /\ RecentlySeenTargets = <<>>
    /\ TimeOfTaskStart = 0
    /\ TimeOfLastLookForEnemy = 0
    /\ TimeOfLastMovementTargetChange = 0
    /\ TimeOfLastSpawn = 0
    /\ TimeOfLastShot = 0
    /\ TimeOfLastWeaponChange = 0
    /\ Trigger = FALSE
    /\ fatal = FALSE
    /\ cycle = NoCycle

\* the component on its character, the character possessed by an AI controller
InitOf(Configs, Tasks, Present) == InitWith(Configs, Tasks, Present, {TRUE}, {"AI"})

\* every configuration, the bot looking for enemies until its first cycle, one
\* enemy on the server
Init == InitOf(BotConfigs, {"LookingForEnemy"}, {"t1"})

\* the RouteRunner bots, CurrentTask being any task before the first cycle
InitRouteRunner ==
    InitOf({c \in BotConfigs : c.BotType = "RouteRunner"}, EAIStates, {"t1"})

(***************************************************************************)
(* The handlers of the component                                           *)
(***************************************************************************)
EnableBotAI ==
    /\ ~fatal
    /\ ~bBotInitialized
    /\ bBotInitialized' = TRUE
    \* ParentCharacter->GetTeamId() in the scan of the stands
    /\ fatal' = ~ParentCharacter
    /\ GameState' = [GameState EXCEPT !.EnemyStandLocation = WorldStand.Enemy,
                                      !.FriendlyStandLocation = WorldStand.Friendly]
    /\ cycle' = NoCycle
    /\ UNCHANGED <<world, BotConfig, bIsDead, AIState, RecentlySeenTargets, times, Trigger>>

\* the 0.5 s timer EnableBotAI registers calls DetermineCurrentTask
DetermineCurrentTask ==
    /\ ~fatal
    /\ bBotInitialized
    /\ \E in \in SelectorInputs, s \in {Self} :
          \E r \in {DetermineCurrentTaskOf(s, in)} :
              Commit(r.s) /\ cycle' = r.obs
    /\ UNCHANGED <<now, targets, ParentCharacter, Controller, BotConfig, bBotInitialized>>

TickComponent ==
    /\ ~fatal
    /\ \E in \in TickInputs, s \in {Self} :
          \E r \in {TickComponentOf(s, in)} : Commit(r)
    /\ cycle' = NoCycle
    /\ UNCHANGED <<now, targets, ParentCharacter, Controller, BotConfig, bBotInitialized>>

\* the OnSeePawn delegate EnableBotAI binds
OnPawnSeen(SeenPawn) ==
    /\ ~fatal
    /\ bBotInitialized
    /\ targets[SeenPawn].valid
    /\ RecentlySeenTargets' = MapAdd(RecentlySeenTargets, SeenPawn, now)
    /\ cycle' = NoCycle
    /\ UNCHANGED <<world, BotConfig, bBotInitialized, bIsDead, AIState, GameState, times,
                   Trigger, fatal>>

\* the handler forgetting every enemy it has seen
PossibleTargetDiedForgetsAll(s, Target) ==
    [s EXCEPT !.AIState.CurrentTarget = IF @ = Target THEN NullTarget ELSE @,
              !.RecentlySeenTargets = <<>>]

\* the bundle after PossibleTargetDied(Target)
PossibleTargetDiedOf(s, Target) ==
    LET Keep(e) == e[1] # NullTarget /\ targets[e[1]].valid /\ e[1] # Target
    IN  [s EXCEPT !.AIState.CurrentTarget = IF @ = Target THEN NullTarget ELSE @,
                  !.RecentlySeenTargets = SelectSeq(s.RecentlySeenTargets, Keep)]

PossibleTargetDied(Target) ==
    /\ ~fatal
    /\ \E r \in {PossibleTargetDiedOf(Self, Target)} : Commit(r)
    /\ cycle' = NoCycle
    /\ UNCHANGED <<now, targets, ParentCharacter, Controller, BotConfig, bBotInitialized>>

\* the host reports the bot's death
OnDied ==
    /\ ~fatal
    /\ ~bIsDead
    /\ \E r \in {OnDiedOf(Self)} : Commit(r)
    /\ cycle' = NoCycle
    /\ UNCHANGED <<now, targets, ParentCharacter, Controller, BotConfig, bBotInitialized>>

OnSpawn ==
    /\ ~fatal
    /\ bIsDead
    /\ bIsDead' = FALSE
    /\ TimeOfLastSpawn' = now
    /\ AIState' = [AIState EXCEPT !.RouteStartLocation = ZeroVector]
    /\ cycle' = NoCycle
    /\ UNCHANGED <<world, BotConfig, bBotInitialized, GameState, RecentlySeenTargets,
                   TimeOfTaskStart, TimeOfLastLookForEnemy, TimeOfLastMovementTargetChange,
                   TimeOfLastShot, TimeOfLastWeaponChange, Trigger, fatal>>

(***************************************************************************)
(* The world                                                               *)
(***************************************************************************)
AdvanceTime ==
    /\ ~fatal
    /\ \E d \in Pauses :
          /\ \E t0 \in StartTimes : t0 <= now /\ now < t0 + MaxPauses * d
          /\ now' = now + d
    /\ cycle' = NoCycle
    /\ UNCHANGED <<targets, ParentCharacter, Controller, Weapon, BotConfig,
                   bBotInitialized, bIsDead, AIState, GameState, RecentlySeenTargets, times,
                   Trigger, fatal>>

\* an enemy dies (health 0 and a time of death recorded) or is destroyed
\* (leaves the server); a destroyed actor never becomes valid again
TargetStates(t) ==
    IF ~targets[t].valid THEN {}
    ELSE {[valid |-> FALSE, Health |-> 0, TimeOfDeath |-> 0]}
         \cup (IF targets[t].Health > 0
               THEN {[valid |-> TRUE, Health |-> 0, TimeOfDeath |-> 1]}
               ELSE {})

TargetChanges(t) ==
    /\ ~fatal
    /\ \E st \in TargetStates(t) \ {targets[t]} : targets' = [targets EXCEPT ![t] = st]
    /\ cycle' = NoCycle
    /\ UNCHANGED <<now, ParentCharacter, Controller, Weapon, BotConfig,
                   bBotInitialized, bIsDead, AIState, GameState, RecentlySeenTargets, times,
                   Trigger, fatal>>

Next ==
    \/ EnableBotAI
    \/ DetermineCurrentTask
    \/ TickComponent
    \/ \E t \in Targets : OnPawnSeen(t)
    \/ \E t \in Targets : PossibleTargetDied(t)
    \/ OnDied
    \/ OnSpawn
    \/ AdvanceTime
    \/ \E t \in Targets : TargetChanges(t)

Spec == Init /\ [][Next]_vars
SpecRouteRunner == InitRouteRunner /\ [][Next]_vars

(***************************************************************************)
(* Destination resolution on its own: DetermineMoveLocation called on a    *)
(* bot in the middle of a match, for every role, every route state, with   *)
(* and without a current target, every flag situation                       *)
(***************************************************************************)
MoveConfigs ==
    {c \in [BotType : EBotTypes, AccuracyLevel : {"Perfect"},
            RouteTrailNames : {<<>>, <<"r1">>},
            bBotShoots : {TRUE}, bNoChaingun : {TRUE}, bNoDisc : {FALSE}] :
        c.RouteTrailNames = <<>> <=> c.BotType \notin {"Offense", "RouteRunner"}}

\* an initialized, living bot some time into a match: the stands are scanned,
\* the game state is the one of the last refresh (both flags home), the
\* route state and the current target are whatever the cycles so far left
MidMatch(Configs, Weapons, CurrentTargets, RouteStates) ==
    /\ now \in StartTimes
    /\ targets = [t \in Targets |-> [valid |-> t = "t1", Health |-> 200, TimeOfDeath |-> 0]]
    /\ ParentCharacter = TRUE
    /\ Controller = "AI"
    /\ Weapon \in Weapons
    /\ BotConfig \in Configs
    /\ bBotInitialized = TRUE
    /\ bIsDead = FALSE
    /\ \E cur \in CurrentTargets, rs \in RouteStates :
          /\ rs # "NoRouteSelected" => BotConfig.BotType = "Offense"
          /\ AIState = [CurrentTask |-> "LookingForEnemy", CurrentTarget |-> cur,
                        DesiredMoveLocation |-> ZeroVector, MoveTargetType |-> "RouteStart",
                        RouteState |-> rs, bIsHoldingFlag |-> FALSE,
                        bPendingWeaponFire |-> FALSE, IsTaskInitialized |-> TRUE,
                        RouteStartLocation |->
                            IF rs = "NoRouteSelected" THEN ZeroVector ELSE Routes.r1.Start,
                        CurrentRoute |->
                            IF rs = "NoRouteSelected" THEN NoRoute ELSE Routes.r1]
    /\ GameState = [EnemyStandLocation |-> WorldStand.Enemy,
                    FriendlyStandLocation |-> WorldStand.Friendly,
                    EnemyFlagLocation |-> WorldStand.Enemy,
                    FriendlyFlagLocation |-> WorldStand.Friendly,
                    bEnemyFlagHome |-> TRUE, bEnemyFlagHeld |-> FALSE,
                    bFriendlyFlagHome |-> TRUE, bFriendlyFlagHeld |-> FALSE,
                    FlagState |-> "BothFlagsHome"]
    /\ RecentlySeenTargets = <<>>
    /\ TimeOfTaskStart = 0
    /\ TimeOfLastLookForEnemy = 0
    /\ TimeOfLastMovementTargetChange = 0
    /\ TimeOfLastSpawn = 0
    /\ TimeOfLastShot = 0
    /\ TimeOfLastWeaponChange = 0
    /\ Trigger = FALSE
    /\ fatal = FALSE
    /\ cycle = NoCycle

InitMove == MidMatch(MoveConfigs, {"RingLauncher"}, {NullTarget, "t1"}, EAIRouteState)

\* every flag situation: each flag home, carried or dropped, the enemy flag
\* possibly carried by the bot itself
AllFlagInputs ==
    LET F(f) == {[state |-> "Home", loc |-> WorldStand[f]]}
                \cup [state : {"Held", "Dropped"}, loc : LoosePositions]
    IN  [Friendly : F("Friendly"),
         Enemy : F("Enemy") \cup {[state |-> "HeldByBot", loc |-> ZeroVector]}]

MoveInputs ==
    [botPos : Positions, flag : AllFlagInputs,
     obs : {o \in [Targets -> TargetObs] : o["t2"] = DefaultObs}]

\* one call of DetermineMoveLocation; cycle remembers the call's inputs and
\* the destination and its time stamp before the call
MoveLocation ==
    /\ ~fatal
    /\ \E in \in MoveInputs :
          /\ Commit(DetermineMoveLocation(Self, in))
          /\ cycle' = [op |-> "DetermineMoveLocation", in |-> in,
                       before |-> [MoveTargetType |-> AIState.MoveTargetType,
                                   DesiredMoveLocation |-> AIState.DesiredMoveLocation,
                                   TimeOfLastMovementTargetChange |->
                                       TimeOfLastMovementTargetChange]]
    /\ UNCHANGED <<now, targets, ParentCharacter, Controller, BotConfig, bBotInitialized>>

\* the selector's step before the resolution (181-184): an Offense bot without
\* a route picks one and starts moving to its start
SelectRoute ==
    /\ ~fatal
    /\ BotConfig.BotType = "Offense"
    /\ AIState.RouteState = "NoRouteSelected"
    /\ \E route \in 1..Len(BotConfig.RouteTrailNames) :
          Commit(DetermineRouteToRun(Self, [route |-> route]))
    /\ cycle' = NoCycle
    /\ UNCHANGED <<now, targets, ParentCharacter, Controller, BotConfig, bBotInitialized>>

NextMove ==
    \/ MoveLocation
    \/ SelectRoute
    \/ AdvanceTime

SpecMove == InitMove /\ [][NextMove]_vars

(***************************************************************************)
(* The walk to the destination: MoveToTarget called on the destinations    *)
(* DetermineMoveLocation resolves                                          *)
(***************************************************************************)
InitSkate ==
    MidMatch({c \in MoveConfigs : c.BotType \in {"Chase", "LO"}}, {"RingLauncher"},
             {NullTarget, "t1"}, {"NoRouteSelected"})

\* the bot at a stand or between them, on the ground or 500 above it,
\* standing or moving either way at 2000 a second
SkateInputs ==
    [botPos : {1000, 15000, 30000}, heightAboveGround : {0, 500},
     velocity : {-2000, 0, 2000}]

\* one call of MoveToTarget; cycle remembers the inputs and the commands
MoveTo ==
    /\ ~fatal
    /\ \E in \in SkateInputs :
          \E r \in {MoveToTarget(Self, in)} :
             /\ Commit(r)
             /\ cycle' = [op |-> "MoveToTarget", in |-> in, commands |-> r.commands]
    /\ UNCHANGED <<now, targets, ParentCharacter, Controller, BotConfig, bBotInitialized>>

NextSkate ==
    \/ MoveLocation
    \/ MoveTo

SpecSkate == InitSkate /\ [][NextSkate]_vars

(***************************************************************************)
(* Target scoring on its own: GetTargetFocusScore called on every enemy,   *)
(* alive, wounded, dead or gone, seen near or far                          *)
(***************************************************************************)
\* what the world may report about an enemy: 50 or 200 units from the
\* friendly stand or at the enemy stand, standing or at 180 kph, on the
\* ground or 1000 units above it, with or without a flag
CombatObs == [pos : {1050, 1200, 30000}, speed : {0, 5000}, hag : {0, 1000},
              carrier : BOOLEAN]
CombatInputs ==
    [botPos : Positions, obs : {o \in [Targets -> CombatObs] : o["t2"] = DefaultObs}]

CombatConfigs ==
    [BotType : {"Chase"}, AccuracyLevel : {"Horrible", "Decent", "Perfect"},
     RouteTrailNames : {<<>>}, bBotShoots : {TRUE},
     bNoChaingun : BOOLEAN, bNoDisc : BOOLEAN]

InitScore ==
    MidMatch({c \in CombatConfigs : c.AccuracyLevel = "Perfect" /\ ~c.bNoChaingun /\ ~c.bNoDisc},
             {"RingLauncher"}, {NullTarget, "t1"}, {"NoRouteSelected"})

\* one call of GetTargetFocusScore; cycle remembers the target, the inputs
\* and the returned score (in hundredths)
FocusScore ==
    /\ ~fatal
    /\ \E Target \in Targets \cup {NullTarget}, in \in CombatInputs :
          cycle' = [op |-> "GetTargetFocusScore", Target |-> Target, in |-> in,
                    score |-> GetTargetFocusScore(Target, AIState.CurrentTarget, in)]
    /\ UNCHANGED <<now, targets, ParentCharacter, Controller, Weapon, BotConfig,
                   bBotInitialized, bIsDead, AIState, GameState, RecentlySeenTargets, times,
                   Trigger, fatal>>

\* an enemy is hit and keeps 40 of its 200 health
TargetWounded(t) ==
    /\ ~fatal
    /\ targets[t].valid
    /\ targets[t].Health = 200
    /\ targets' = [targets EXCEPT ![t].Health = 40]
    /\ cycle' = NoCycle
    /\ UNCHANGED <<now, ParentCharacter, Controller, Weapon, BotConfig,
                   bBotInitialized, bIsDead, AIState, GameState, RecentlySeenTargets, times,
                   Trigger, fatal>>

NextScore ==
    \/ FocusScore
    \/ \E t \in Targets : TargetWounded(t)
    \/ \E t \in Targets : TargetChanges(t)

SpecScore == InitScore /\ [][NextScore]_vars

(***************************************************************************)
(* The route of an Offense bot: the selector called on a bot that walks to *)
(* the start of its route or runs it, with enemies seen around it          *)
(***************************************************************************)
OffenseConfigs == {c \in MoveConfigs : c.BotType = "Offense"}

InitOffense ==
    MidMatch(OffenseConfigs, {"RingLauncher"}, {NullTarget, "t1"},
             {"MovingToRouteStart", "RunningRoute"})

\* what the bot on its route sees of an enemy: the flag carrier standing on
\* the ground 200 units from the friendly stand, or an enemy far away
OffenseObs ==
    { [pos |-> 1200,  speed |-> 0,    hag |-> 0,    carrier |-> TRUE],
      [pos |-> 30000, speed |-> 5000, hag |-> 1000, carrier |-> FALSE] }

\* the inputs of a cycle, the enemies the bot knows seen as OffenseObs
OffenseInputs ==
    LET early == bIsDead \/ PendingFireForces(AIState.bPendingWeaponFire, now - TimeOfTaskStart)
        unseen == [t \in Targets |-> DefaultObs]
    IN  {[in EXCEPT !.obs = o] :
            in \in {i \in SelectorInputs : i.obs = unseen},
            o \in IF early THEN {unseen}
                  ELSE {o \in [Targets -> OffenseObs \cup {DefaultObs}] :
                           \A t \in Targets : o[t] \in OffenseObs <=> t \in RelevantTargets}}

\* one cycle of the selector on the bot
OffenseCycle ==
    /\ ~fatal
    /\ \E in \in OffenseInputs, s \in {Self} :
          \E r \in {DetermineCurrentTaskOf(s, in)} :
              Commit(r.s) /\ cycle' = r.obs
    /\ UNCHANGED <<now, targets, ParentCharacter, Controller, BotConfig, bBotInitialized>>

NextOffense ==
    \/ OffenseCycle
    \/ \E t \in Targets : OnPawnSeen(t)
    \/ \E t \in Targets : TargetWounded(t)
    \/ OnDied
    \/ OnSpawn
    \/ AdvanceTime

SpecOffense == InitOffense /\ [][NextOffense]_vars

(***************************************************************************)
(* Weapon selection on its own: SelectBestWeapon called second after       *)
(* second, for every accuracy tier and every pair of weapon-usage flags    *)
(***************************************************************************)
\* the clock runs in whole seconds up to MaxClock
MaxClock == 6

InitWeapon == MidMatch(CombatConfigs, {"RingLauncher"}, {NullTarget, "t1"}, {"NoRouteSelected"})

\* the bot stands at its stand; the target carries no flag (weapon selection
\* does not read it)
WeaponInputs ==
    {in \in CombatInputs :
        /\ in.botPos = WorldStand.Friendly
        /\ in.obs["t1"].pos # 1050
        /\ ~in.obs["t1"].carrier}

\* one call of SelectBestWeapon, made as the tick makes it, with a current
\* target that has not left the server; cycle remembers the inputs and the
\* weapon and the time stamp before the call
SelectWeapon ==
    /\ ~fatal
    /\ AIState.CurrentTarget # NullTarget => targets[AIState.CurrentTarget].valid
    /\ \E in \in WeaponInputs :
          /\ Commit(SelectBestWeapon(Self, in))
          /\ cycle' = [op |-> "SelectBestWeapon", in |-> in,
                       before |-> [Weapon |-> Weapon,
                                   TimeOfLastWeaponChange |-> TimeOfLastWeaponChange]]
    /\ UNCHANGED <<now, targets, ParentCharacter, Controller, BotConfig, bBotInitialized>>

SecondPasses ==
    /\ ~fatal
    /\ now < MaxClock
    /\ now' = now + Sec(1)
    /\ cycle' = NoCycle
    /\ UNCHANGED <<targets, ParentCharacter, Controller, Weapon, BotConfig,
                   bBotInitialized, bIsDead, AIState, GameState, RecentlySeenTargets, times,
                   Trigger, fatal>>

NextWeapon ==
    \/ SelectWeapon
    \/ SecondPasses
    \/ \E t \in Targets : TargetWounded(t)
    \/ \E t \in Targets : TargetChanges(t)

SpecWeapon == InitWeapon /\ [][NextWeapon]_vars

(***************************************************************************)
(* Aiming on its own: AimAtTarget called second after second, with and     *)
(* without a fire request, for every accuracy tier and both weapons        *)
(***************************************************************************)
AimConfigs ==
    [BotType : {"Chase"}, AccuracyLevel : EBotAccuracyLevels,
     RouteTrailNames : {<<>>}, bBotShoots : BOOLEAN,
     bNoChaingun : {FALSE}, bNoDisc : {FALSE}]

InitAim == MidMatch(AimConfigs, {"RingLauncher", "Chaingun"}, {NullTarget, "t1"},
                    {"NoRouteSelected"})

\* what one call finds: where the line trace ended, whether the bot already
\* looks along the aim direction, whether the weapon is idle, its heat
AimInputs ==
    [botPos : {WorldStand.Friendly}, obs : {[t \in Targets |-> DefaultObs]},
     trace : Traces, aimOK : BOOLEAN, weaponReady : BOOLEAN, heat : Heats]

\* one call of AimAtTarget; cycle remembers the request, the inputs, the
\* members before the call, the returned value and the commands issued
Aim ==
    /\ ~fatal
    /\ AIState.CurrentTarget # NullTarget => targets[AIState.CurrentTarget].valid
    /\ \E FireWeapon \in BOOLEAN, in \in AimInputs :
          \E r \in {AimAtTarget(Self, FireWeapon, in)} :
             /\ Commit(r[1])
             /\ cycle' = [op |-> "AimAtTarget", FireWeapon |-> FireWeapon, in |-> in,
                          before |-> [TimeOfLastShot |-> TimeOfLastShot,
                                      bPendingWeaponFire |-> AIState.bPendingWeaponFire,
                                      Trigger |-> Trigger],
                          bCanSeeTarget |-> r[2], commands |-> r[1].commands]
    /\ UNCHANGED <<now, targets, ParentCharacter, Controller, BotConfig, bBotInitialized>>

NextAim ==
    \/ Aim
    \/ SecondPasses
    \/ \E t \in Targets : TargetWounded(t)

SpecAim == InitAim /\ [][NextAim]_vars

(***************************************************************************)
(* Missing references: the component without its character, the character *)
(* without a controller or possessed by a player, the character without a *)
(* weapon                                                                  *)
(***************************************************************************)
ShooterConfigs == {c \in BotConfigs : c.BotType = "Chase"}

InitMissing ==
    InitWith(ShooterConfigs, {"LookingForEnemy"}, {"t1"}, BOOLEAN, {"None", "Player", "AI"})

SpecMissing == InitMissing /\ [][Next]_vars

\* the character loses its weapon (ParentCharacter->Weapon becomes null)
WeaponLost ==
    /\ ~fatal
    /\ Weapon # "None"
    /\ Weapon' = "None"
    /\ cycle' = NoCycle
    /\ UNCHANGED <<now, targets, ParentCharacter, Controller, BotConfig,
                   bBotInitialized, bIsDead, AIState, GameState, RecentlySeenTargets, times,
                   Trigger, fatal>>

InitUnarmed == InitOf(ShooterConfigs, {"LookingForEnemy"}, {"t1"})

NextUnarmed ==
    \/ Next
    \/ WeaponLost

SpecUnarmed == InitUnarmed /\ [][NextUnarmed]_vars

(***************************************************************************)
(* The look for enemies over a long match: a Chase bot 1500 units from its *)
(* stand, both flags home, the clock running without end.  Every test of the component compares the    *)
(* age of a time stamp (now minus the stamp) with a number of seconds      *)
(* below MaxAge, so once the clock has reached MaxAge a second that passes *)
(* is recorded by making every time stamp one second older, the stamps     *)
(* older than MaxAge staying at that age                                   *)
(***************************************************************************)
\* 5 weight a second for MaxAge seconds exceeds the weight 10 of the way
\* back to the stand, and a target seen MaxAge seconds ago is forgotten
MaxAge == 5

InitLook == MidMatch(ShooterConfigs, {"RingLauncher"}, {NullTarget}, {"NoRouteSelected"})

\* the bot stays 1500 units from its stand, both flags stay home
LookInputs ==
    {[in EXCEPT !.botPos = WorldStand.Friendly + 1500] :
        in \in {i \in SelectorInputs :
                  i.botPos = WorldStand.Friendly /\ i.flag = HomeFlags}}

\* one cycle of the selector (the 0.5 s looping timer)
LookCycle ==
    /\ ~fatal
    /\ \E in \in LookInputs, s \in {Self} :
          \E r \in {DetermineCurrentTaskOf(s, in)} :
              Commit(r.s) /\ cycle' = r.obs
    /\ UNCHANGED <<now, targets, ParentCharacter, Controller, BotConfig, bBotInitialized>>

\* a time stamp one second later
Aged(T) == IF now < MaxAge THEN T ELSE Max(T - Sec(1), 0)

\* a second passes
Elapse ==
    /\ ~fatal
    /\ now' = IF now < MaxAge THEN now + Sec(1) ELSE now
    /\ TimeOfTaskStart' = Aged(TimeOfTaskStart)
    /\ TimeOfLastLookForEnemy' = Aged(TimeOfLastLookForEnemy)
    /\ TimeOfLastMovementTargetChange' = Aged(TimeOfLastMovementTargetChange)
    /\ TimeOfLastSpawn' = Aged(TimeOfLastSpawn)
    /\ TimeOfLastShot' = Aged(TimeOfLastShot)
    /\ TimeOfLastWeaponChange' = Aged(TimeOfLastWeaponChange)
    /\ RecentlySeenTargets' =
          [i \in 1..Len(RecentlySeenTargets) |->
              <<RecentlySeenTargets[i][1], Aged(RecentlySeenTargets[i][2])>>]
    /\ cycle' = NoCycle
    /\ UNCHANGED <<targets, ParentCharacter, Controller, Weapon, BotConfig,
                   bBotInitialized, bIsDead, AIState, GameState, Trigger, fatal>>

NextLook ==
    \/ LookCycle
    \/ TickComponent
    \/ \E t \in Targets : OnPawnSeen(t)
    \/ \E t \in Targets : PossibleTargetDied(t)
    \/ Elapse

\* the timer keeps calling the selector, the component keeps ticking and the
\* clock keeps running
SpecLook ==
    InitLook /\ [][NextLook]_vars
    /\ WF_vars(LookCycle) /\ WF_vars(TickComponent) /\ WF_vars(Elapse)

(***************************************************************************)
(* The memory of seen enemies: a Chase bot at its stand with two enemies   *)
(* on the server that are seen, chosen, and reported dead                  *)
(***************************************************************************)
InitMemory == InitOf(ShooterConfigs, {"LookingForEnemy"}, Targets)

\* the bot stays at its stand, both flags stay home
MemoryInputs ==
    {in \in SelectorInputs : in.botPos = WorldStand.Friendly /\ in.flag = HomeFlags}

MemoryCycle ==
    /\ ~fatal
    /\ bBotInitialized
    /\ \E in \in MemoryInputs, s \in {Self} :
          \E r \in {DetermineCurrentTaskOf(s, in)} :
              Commit(r.s) /\ cycle' = r.obs
    /\ UNCHANGED <<now, targets, ParentCharacter, Controller, BotConfig, bBotInitialized>>

\* PossibleTargetDied(Target); cycle remembers the target and what the bot
\* knew before the call
TargetDied(Target) ==
    /\ ~fatal
    /\ \E r \in {PossibleTargetDiedOf(Self, Target)} : Commit(r)
    /\ cycle' = [op |-> "PossibleTargetDied", Target |-> Target,
                 before |-> [CurrentTarget |-> AIState.CurrentTarget,
                             RecentlySeenTargets |-> RecentlySeenTargets]]
    /\ UNCHANGED <<now, targets, ParentCharacter, Controller, BotConfig, bBotInitialized>>

NextMemory ==
    \/ EnableBotAI
    \/ MemoryCycle
    \/ TickComponent
    \/ \E t \in Targets : OnPawnSeen(t)
    \/ \E t \in Targets : TargetDied(t)
    \/ AdvanceTime

SpecMemory == InitMemory /\ [][NextMemory]_vars

(***************************************************************************)
(* The intercept solver on its own.  The world is a line: positions and    *)
(* velocities are signed integers, in units of 500 UU and 500 UU/s, so     *)
(* that times are in seconds.  Times and the returned velocity are exact   *)
(* fractions <<numerator, denominator>>; a float division by zero gives    *)
(* "inf" (or "NaN" for 0/0) as IEEE arithmetic does.                       *)
(***************************************************************************)
Sign(x) == IF x > 0 THEN 1 ELSE IF x < 0 THEN -1 ELSE 0
\* the largest r in lo..hi with r * r <= n
RECURSIVE SqrtBetween(_, _, _)
SqrtBetween(n, lo, hi) ==
    IF lo = hi THEN lo
    ELSE The({ IF mid * mid <= n THEN SqrtBetween(n, mid, hi)
               ELSE SqrtBetween(n, lo, mid - 1)
               : mid \in {(lo + hi + 1) \div 2} })
\* FMath::Sqrt of a non-negative number, exact on the perfect squares
Sqrt(n) == The({ SqrtBetween(m, 0, Min(m, 46340)) : m \in {n} })
RECURSIVE GCD(_, _)
GCD(x, y) == IF y = 0 THEN x ELSE The({ GCD(y, r) : r \in {x % y} })
\* the fraction n / d (d not 0) in lowest terms, with a positive denominator
Frac(n, d) ==
    The({ IF y < 0 THEN <<(-x) \div g, (-y) \div g>> ELSE <<x \div g, y \div g>>
          : g \in {The({ GCD(Abs(x), Abs(y)) : x \in {n}, y \in {d} })},
            x \in {n}, y \in {d} })
FracLess(x, y) == x[1] * y[2] < y[1] * x[2]
FracMin(x, y) == IF FracLess(y, x) THEN y ELSE x
FracMax(x, y) == IF FracLess(x, y) THEN y ELSE x
\* t < SMALL_NUMBER (1e-8): of the times the model can produce, those <= 0
BelowSmallNumber(t) == t[1] <= 0

\* "Assign the lowest positive time to t", with the second root forgotten
EarliestHitIsMin(t0, t1) == FracMin(t0, t1)

\* "Assign the lowest positive time to t to aim at the earliest hit"
EarliestHit(t0, t1) ==
    IF BelowSmallNumber(FracMin(t0, t1)) THEN FracMax(t0, t1) ELSE FracMin(t0, t1)

\* the projectile speed and the share of the shooter's velocity (in halves)
\* the projectile inherits, by the weapon's name
ProjectileSpeed(weapon) ==
    CASE weapon = "RingLauncher" -> 13
      [] weapon = "Chaingun" -> 105
      [] OTHER -> 0
InheritanceHalves(weapon) ==
    CASE weapon = "RingLauncher" -> 1
      [] weapon = "Chaingun" -> 2
      [] OTHER -> 0

\* the distance from Point down to the ground the trace hits under it; the
\* line of the model is the vertical, ground is the height of the impact
GetHeightAboveGround(Point, ground) == Point - ground

\* ground is where the trace of GetHeightAboveGround hits under the target,
\* wild is the value FMath::RandRange(1, 5) returns if it is called.  The
\* result: the time t (kind "finite", "inf" or "NaN"), whether a solution was
\* found, whether the equal-speed branch divided and by what, and the
\* returned velocity (kind "finite" or "NaN")
PredictiveAim(muzzlePosition, projectileSpeed, targetPosition, targetVelocity, ground, wild) ==
    LET projectileSpeedSq == projectileSpeed * projectileSpeed
        \* the local targetPosition after the test on the height: it is
        \* assigned after targetToMuzzle was computed and not read again
        groundHeight == GetHeightAboveGround(targetPosition, ground)
        targetPositionSnapped ==
            IF 500 * (targetPosition - groundHeight) < 600
            THEN groundHeight ELSE targetPosition
        targetSpeed == Abs(targetVelocity)
        targetSpeedSq == targetSpeed * targetSpeed
        targetToMuzzle == muzzlePosition - targetPosition
        targetToMuzzleDist == Abs(targetToMuzzle)
        targetToMuzzleDistSq == targetToMuzzleDist * targetToMuzzleDist
        targetToMuzzleDir == Sign(targetToMuzzle)
        cosTheta == IF targetSpeedSq > 0
                    THEN targetToMuzzleDir * Sign(targetVelocity) ELSE 1
        guess == [kind |-> "finite", t |-> <<wild, 1>>, valid |-> FALSE,
                  divided |-> FALSE, divisor |-> 1]
        found(t) == [kind |-> "finite", t |-> t, valid |-> TRUE,
                     divided |-> FALSE, divisor |-> 1]
        solved ==
            IF projectileSpeedSq = targetSpeedSq
            THEN IF cosTheta > 0
                 THEN LET divisor == targetSpeed * cosTheta IN
                      IF divisor # 0
                      THEN [found(Frac(targetToMuzzleDist, 2 * divisor))
                               EXCEPT !.divided = TRUE, !.divisor = divisor]
                      ELSE [kind |-> IF targetToMuzzleDist = 0 THEN "NaN" ELSE "inf",
                            t |-> <<0, 1>>, valid |-> TRUE,
                            divided |-> TRUE, divisor |-> 0]
                 ELSE guess
            ELSE LET a == projectileSpeedSq - targetSpeedSq
                     b == 2 * targetToMuzzleDist * targetSpeed * cosTheta
                     c == -targetToMuzzleDistSq
                     discriminant == b * b - 4 * a * c
                 IN  IF discriminant < 0 THEN guess
                     ELSE The({The({
                          IF BelowSmallNumber(t) THEN guess ELSE found(t)
                          : t \in {EarliestHit(Frac(-b + uglyNumber, 2 * a),
                                               Frac(-b - uglyNumber, 2 * a))} })
                          : uglyNumber \in {Sqrt(discriminant)} })
        \* targetVelocity + (-targetToMuzzle / t)
        ProjectileVelocity(time) ==
            CASE time.kind = "NaN" -> [kind |-> "NaN", v |-> <<0, 1>>]
              [] time.kind = "inf" -> [kind |-> "finite", v |-> <<targetVelocity, 1>>]
              [] OTHER -> [kind |-> "finite",
                           v |-> Frac(targetVelocity * time.t[1] - targetToMuzzle * time.t[2],
                                      time.t[1])]
    IN  The({ [kind |-> time.kind, t |-> time.t, valid |-> time.valid,
               divided |-> time.divided, divisor |-> time.divisor,
               targetPosition |-> targetPositionSnapped,
               projectileVelocity |->
                  IF time.valid THEN ProjectileVelocity(time)
                  \* projectileSpeed * projectileVelocity.GetSafeNormal()
                  ELSE [kind |-> "finite",
                        v |-> <<projectileSpeed * Sign(ProjectileVelocity(time).v[1]), 1>>]]
              : time \in {solved} })

\* in.shooterVelocity is even, so that half of it is a whole number
GetWeaponAimLocation(weapon, in, wild) ==
    LET DiscVelocity == (in.shooterVelocity * InheritanceHalves(weapon)) \div 2
        AdjustedTargetVelocity == in.targetVelocity - DiscVelocity
    IN  PredictiveAim(in.muzzle, ProjectileSpeed(weapon), in.target,
                      AdjustedTargetVelocity, in.ground, wild)

\* the shooter at the origin, standing or moving at 2000 UU/s; the target
\* 1000 or 5000 UU away on either side, standing or moving either way at
\* 2000 UU/s, at the speed of the ring (6500 UU/s) or faster (10000 UU/s),
\* 500 or 1000 UU above the ground under it
SolverInputs ==
    {in \in [muzzle : {0}, target : {-10, -2, 2, 10}, ground : {-12, -11, -3, 0, 1, 8},
             targetVelocity : {-20, -13, -4, 0, 4, 13, 20}, shooterVelocity : {0, 4}] :
        in.target - in.ground \in {1, 2}}

\* a weapon the aiming code has no name for
InitSolver ==
    MidMatch({c \in CombatConfigs : c.AccuracyLevel = "Perfect" /\ ~c.bNoChaingun /\ ~c.bNoDisc},
             {"RingLauncher", "Chaingun", "GrenadeLauncher"}, {"t1"}, {"NoRouteSelected"})

\* one call of GetWeaponAimLocation, as AimAtTarget makes it; cycle remembers
\* the arguments PredictiveAim received and what it returned
PredictAim ==
    /\ ~fatal
    /\ \E in \in SolverInputs, wild \in 1..5 :
          cycle' = [op |-> "PredictiveAim", in |-> in,
                    projectileSpeed |-> ProjectileSpeed(Weapon),
                    targetVelocity |-> in.targetVelocity
                        - (in.shooterVelocity * InheritanceHalves(Weapon)) \div 2,
                    out |-> GetWeaponAimLocation(Weapon, in, wild)]
    /\ UNCHANGED <<now, targets, ParentCharacter, Controller, Weapon, BotConfig,
                   bBotInitialized, bIsDead, AIState, GameState, RecentlySeenTargets, times,
                   Trigger, fatal>>

NextSolver == PredictAim

SpecSolver == InitSolver /\ [][NextSolver]_vars

(***************************************************************************)
(* Properties of the selector                                              *)
(***************************************************************************)
\* the last step was a DetermineCurrentTask that got past its guards
CycleRan == cycle.op = "DetermineCurrentTask" /\ cycle.path \notin {"guard", "fatal"}
\* ... and reached the max-weight scan
ReachedScan == cycle.op = "DetermineCurrentTask" /\ cycle.path = "normal"

\* the first candidate, in the map's order, holding the largest weight
ArgMax(tw) ==
    CHOOSE i \in 1..Len(tw) : /\ \A j \in 1..Len(tw) : tw[j][2] <= tw[i][2]
                              /\ \A j \in 1..(i - 1) : tw[j][2] < tw[i][2]
Heaviest(tw) == tw[ArgMax(tw)][1]
SomePositive(tw) == \E i \in 1..Len(tw) : tw[i][2] > 0

\* the destination the cycle resolved is a stand the bot cannot act upon
UselessStand ==
    \/ AIState.MoveTargetType = "EnemyStand" /\ ~GameState.bEnemyFlagHome
    \/ AIState.MoveTargetType = "FriendlyStand"
       /\ ~(AIState.bIsHoldingFlag /\ GameState.bFriendlyFlagHome)
StalledAtStand == cycle.DistanceToMoveLocation < 300 /\ UselessStand

\* C1 as stated: a cycle that reaches the scan commits the task holding the
\* largest weight of the TaskWeights map it built.
C1_CommitsHeaviest ==
    ReachedScan /\ Len(cycle.TaskWeights) > 0
        => AIState.CurrentTask = Heaviest(cycle.TaskWeights)

\* C1 amended: a cycle that reaches the scan commits the first candidate of
\* the largest weight when some weight is positive, except that a heaviest
\* MoveToTarget within 300 of a stand the bot cannot act upon is replaced by
\* LookingForEnemy; with no positive weight the task the scan started from
\* stays: LookingForEnemy, or RunningRoute when the cycle started the route.
C1_CommitsHeaviestUnlessStalled ==
    ReachedScan =>
        LET tw == cycle.TaskWeights IN
        IF ~SomePositive(tw)
        THEN AIState.CurrentTask \in {"LookingForEnemy", "RunningRoute"}
        ELSE IF Heaviest(tw) = "MoveToTarget" /\ StalledAtStand
        THEN AIState.CurrentTask = "LookingForEnemy"
        ELSE AIState.CurrentTask = Heaviest(tw)

\* a later candidate outweighs an earlier positive one and is committed
C1_Witness ==
    /\ ReachedScan
    /\ Len(cycle.TaskWeights) >= 2
    /\ cycle.TaskWeights[1][2] > 0
    /\ ArgMax(cycle.TaskWeights) > 1
    /\ AIState.CurrentTask = Heaviest(cycle.TaskWeights)
    /\ AIState.CurrentTask # cycle.LastTask

\* C2 as stated, for the cycles that get past the RouteRunner and pending-fire
\* returns: carrying the flag with the friendly flag home, the cycle ends
\* with CurrentTask = MoveToTarget.
C2_CarrierMovesToCap ==
    /\ cycle.op = "DetermineCurrentTask"
    /\ cycle.path \in {"normal", "respawn"}
    /\ cycle.CarriedObject /\ cycle.bFriendlyFlagHome
    => AIState.CurrentTask = "MoveToTarget"

\* C3 as stated, at the end of the selector cycles: a non-null CurrentTarget is
\* a valid character with health and no time of death.
C3_TargetAliveAfterCycle ==
    CycleRan /\ AIState.CurrentTarget # NullTarget
        => LET t == targets[AIState.CurrentTarget]
           IN  t.valid /\ t.Health > 0 /\ t.TimeOfDeath = 0

\* C4: no cycle ends committed to MoveToTarget within 300 of a stand the bot
\* cannot act upon; the cycle whose heaviest candidate is that MoveToTarget
\* commits LookingForEnemy. The cycles that return early never commit
\* MoveToTarget.
C4_NeverStalledAtStand ==
    /\ CycleRan /\ ~ReachedScan => AIState.CurrentTask # "MoveToTarget"
    /\ ReachedScan /\ StalledAtStand
           => /\ AIState.CurrentTask # "MoveToTarget"
              /\ SomePositive(cycle.TaskWeights)
                 /\ Heaviest(cycle.TaskWeights) = "MoveToTarget"
                     => AIState.CurrentTask = "LookingForEnemy"

\* MoveToTarget was the heaviest candidate at a useless stand, and the bot looks
C4_Witness ==
    /\ ReachedScan /\ StalledAtStand
    /\ SomePositive(cycle.TaskWeights)
    /\ Heaviest(cycle.TaskWeights) = "MoveToTarget"
    /\ AIState.CurrentTask = "LookingForEnemy"

\* C5: a cycle of a live bot that is no RouteRunner, with bPendingWeaponFire
\* set: less than 1 s after TimeOfTaskStart it returns at the pending-fire
\* check with ShootAtTarget committed and the destination, the target and the
\* route state as they were; from 1 s on it does not return there.
C5_PendingFire ==
    [][ /\ cycle'.op = "DetermineCurrentTask"
        /\ cycle'.path \notin {"guard", "fatal"}
        /\ BotConfig.BotType # "RouteRunner"
        /\ AIState.bPendingWeaponFire
        => IF now - TimeOfTaskStart < Sec(1)
           THEN /\ cycle'.path = "pending"
                /\ AIState'.CurrentTask = "ShootAtTarget"
                /\ AIState'.DesiredMoveLocation = AIState.DesiredMoveLocation
                /\ AIState'.MoveTargetType = AIState.MoveTargetType
                /\ AIState'.CurrentTarget = AIState.CurrentTarget
                /\ AIState'.RouteState = AIState.RouteState
                /\ AIState'.CurrentRoute = AIState.CurrentRoute
           ELSE cycle'.path # "pending" ]_vars

\* a cycle forced to ShootAtTarget by the pending shot
C5_Witness ==
    /\ cycle.op = "DetermineCurrentTask" /\ cycle.path = "pending"
    /\ AIState.bPendingWeaponFire
    /\ AIState.CurrentTask = "ShootAtTarget"
    /\ AIState.CurrentTarget # NullTarget

\* a step is a DetermineCurrentTask that got past its guards
CycleStep == cycle'.op = "DetermineCurrentTask" /\ cycle'.path \notin {"guard", "fatal"}

C7_MemoryCleared == CycleRan => RecentlySeenTargets = <<>>

\* a cycle that weighed a remembered target ends with the memory empty
C7_Witness ==
    /\ ReachedScan
    /\ MapHas(cycle.TaskWeights, "ChangeTarget")
    /\ RecentlySeenTargets = <<>>

LiveRouteRunner ==
    BotConfig.BotType = "RouteRunner" /\ ParentCharacter /\ Controller = "AI" /\ ~bIsDead

RouteRunnerCycle ==
    /\ AIState'.CurrentTask = "RouteRunner"
    /\ RecentlySeenTargets' = <<>>
    /\ AIState'.DesiredMoveLocation = AIState.DesiredMoveLocation
    /\ AIState'.MoveTargetType = AIState.MoveTargetType
    /\ AIState'.CurrentTarget = AIState.CurrentTarget
    /\ AIState'.RouteState = AIState.RouteState
    /\ AIState'.CurrentRoute = AIState.CurrentRoute
    /\ TimeOfTaskStart' = TimeOfTaskStart

\* what a tick would leave, from the present state, for each of its inputs
TickOutcomes == {TickComponentOf(Self, in) : in \in TickInputs}

\* C8 as stated, for the ticks: every tick of a live RouteRunner bot ends with
\* CurrentTask = RouteRunner.
C8_TickForcesRouteRunner ==
    LiveRouteRunner /\ ~fatal
        => \A r \in TickOutcomes : r.AIState.CurrentTask = "RouteRunner"

\* C8 amended: every cycle of a live RouteRunner bot ends with CurrentTask =
\* RouteRunner, clears the memory and changes no destination, target, route
\* state or task stamp; every tick that runs once the component is initialized
\* ends with CurrentTask = RouteRunner, and a tick before that returns
\* without touching CurrentTask.
C8_RouteRunnerForcedOnceInitialized ==
    /\ [](LiveRouteRunner /\ ~fatal
            => \A r \in TickOutcomes :
                   r.AIState.CurrentTask = IF bBotInitialized THEN "RouteRunner"
                                           ELSE AIState.CurrentTask)
    /\ [][LiveRouteRunner /\ CycleStep => RouteRunnerCycle]_vars

\* a cycle of a live RouteRunner bot that found another task committed
C8_Witness ==
    /\ LiveRouteRunner /\ bBotInitialized
    /\ cycle.op = "DetermineCurrentTask" /\ cycle.path = "RouteRunner"
    /\ cycle.LastTask # "RouteRunner"
    /\ AIState.CurrentTask = "RouteRunner"

ChaseCycleNearFlag ==
    /\ ReachedScan
    /\ BotConfig.BotType = "Chase"
    /\ ~cycle.bFriendlyFlagHome
    /\ DistanceBetweenTargets(cycle.botPos, GameState.FriendlyFlagLocation) < 10000

MoveToTargetIs200 ==
    /\ MapHas(cycle.TaskWeights, "MoveToTarget")
    /\ MapGet(cycle.TaskWeights, "MoveToTarget") = W(200)

\* C9 as stated: a Chase cycle with the friendly flag away from home and the
\* bot less than 10000 from it weighs MoveToTarget exactly 200.
C9_ChaseFlagWeight == ChaseCycleNearFlag => MoveToTargetIs200

\* C9 amended: ... when the destination the cycle resolved is the friendly
\* flag (MoveTargetType = FriendlyFlag).
C9_ChaseFlagWeightWhenDestination ==
    ChaseCycleNearFlag /\ AIState.MoveTargetType = "FriendlyFlag" => MoveToTargetIs200

\* with a target, where only the distance decides between 200 and 70
C9_Witness ==
    /\ ChaseCycleNearFlag /\ AIState.MoveTargetType = "FriendlyFlag"
    /\ AIState.CurrentTarget # NullTarget
    /\ cycle.DistanceToMoveLocation > 1000
    /\ MoveToTargetIs200

\* a step is a cycle that reached the scan with nothing remembered and no target
LookCycleStep ==
    /\ cycle'.op = "DetermineCurrentTask" /\ cycle'.path = "normal"
    /\ RecentlySeenTargets = <<>>
    /\ AIState'.CurrentTarget = NullTarget

LookWeight == MapGet(cycle'.TaskWeights, "LookingForEnemy")

\* C10 as stated: with no remembered target and a null current target the
\* cycle commits LookingForEnemy, weighted 5 times the seconds since the last
\* look, or 3 when the task changed within the last 2 s.
C10_LooksWithWeight ==
    [][ LookCycleStep
        => /\ AIState'.CurrentTask = "LookingForEnemy"
           /\ MapHas(cycle'.TaskWeights, "LookingForEnemy")
           /\ LookWeight = IF now - TimeOfTaskStart <= Sec(2) THEN W(3)
                           ELSE W(5) * (now - TimeOfLastLookForEnemy) ]_vars

\* C10 amended: the LookingForEnemy candidate is weighted 3 when the last task
\* was another one and changed at most 2 s ago, or was LookingForEnemy for
\* more than 2 s; otherwise 5 times the seconds since the last look. It is
\* committed unless another candidate weighs at least as much.
C10_LookWeightBiased ==
    [][ LookCycleStep
        => /\ MapHas(cycle'.TaskWeights, "LookingForEnemy")
           /\ LookWeight =
                 IF \/ AIState.CurrentTask # "LookingForEnemy"
                       /\ now - TimeOfTaskStart <= Sec(2)
                    \/ AIState.CurrentTask = "LookingForEnemy"
                       /\ now - TimeOfTaskStart > Sec(2)
                 THEN W(3)
                 ELSE W(5) * (now - TimeOfLastLookForEnemy)
           /\ AIState'.CurrentTask # "LookingForEnemy"
                 => \E i \in 1..Len(cycle'.TaskWeights) :
                       /\ cycle'.TaskWeights[i][1] = AIState'.CurrentTask
                       /\ cycle'.TaskWeights[i][2] > 0
                       /\ cycle'.TaskWeights[i][2] >= LookWeight ]_vars

\* a bot that has looked for more than 2 s weighs looking 3 and keeps looking
C10_Witness ==
    /\ ReachedScan
    /\ cycle.LastTask = "LookingForEnemy"
    /\ AIState.CurrentTarget = NullTarget
    /\ MapHas(cycle.TaskWeights, "LookingForEnemy")
    /\ MapGet(cycle.TaskWeights, "LookingForEnemy") = W(3)
    /\ now - TimeOfLastLookForEnemy > 0
    /\ AIState.CurrentTask = "LookingForEnemy"

(***************************************************************************)
(* Properties of destination resolution (specification SpecMove)           *)
(***************************************************************************)
\* the last step was a call of DetermineMoveLocation
Resolved == cycle.op = "DetermineMoveLocation"

\* C11: calling DetermineMoveLocation a second time with the same bot, target
\* and flag inputs leaves DesiredMoveLocation and MoveTargetType as the first
\* call left them, for every role and route state
C11_Idempotent ==
    Resolved =>
        \A r \in {DetermineMoveLocation(Self, cycle.in)} :
            /\ r.AIState.DesiredMoveLocation = AIState.DesiredMoveLocation
            /\ r.AIState.MoveTargetType = AIState.MoveTargetType
\* a call that changed the destination type while the flag situation differed
\* from the one of the previous refresh
C11_Witness ==
    /\ Resolved
    /\ AIState.MoveTargetType # cycle.before.MoveTargetType
    /\ GameState.FlagState = "Standoff"
    /\ BotConfig.BotType = "StayAtHome"

\* what the resolved call saw: the game state as refreshed from its inputs,
\* the distances to the two flags, whether the bot carried the enemy flag
SeenGameState == RefreshGameState(Self, cycle.in)
SeenEnemyFlagDistance ==
    DistanceBetweenTargets(cycle.in.botPos, SeenGameState.EnemyFlagLocation)
SeenFriendlyFlagDistance ==
    DistanceBetweenTargets(cycle.in.botPos, SeenGameState.FriendlyFlagLocation)
SeenHolding == CarriedObject(cycle.in)
\* the destination before the target-chase test
BaseDestination ==
    RoleDestination(Dest(cycle.before.MoveTargetType, ZeroVector), BotConfig.BotType,
                    SeenGameState, SeenHolding, SeenEnemyFlagDistance,
                    SeenFriendlyFlagDistance)
\* the conditions of the overrides at 669, 691, 697 and 705
ChaseCondition ==
    /\ AIState.CurrentTarget # NullTarget
    /\ DistanceToTarget(AIState.CurrentTarget, cycle.in) < 20000
    /\ DistanceBetweenTargets(cycle.in.botPos, BaseDestination.loc) < 10000
LooseFriendlyFlagCondition ==
    /\ SeenFriendlyFlagDistance < FriendlyFlagOverrideDistance(BotConfig.BotType)
    /\ ~SeenGameState.bFriendlyFlagHeld
    /\ SeenGameState.FlagState \in {"FriendlyTakenEnemyHome", "Standoff"}
LooseEnemyFlagCondition ==
    /\ SeenEnemyFlagDistance < EnemyFlagOverrideDistance(BotConfig.BotType)
    /\ ~SeenGameState.bEnemyFlagHeld
    /\ SeenGameState.FlagState \in {"EnemyFlagTakenFriendlySafe", "Standoff"}
CapCondition == SeenHolding /\ SeenGameState.bFriendlyFlagHome

\* C12: for every role, a resolution made while the bot holds the flag, with
\* neither the target-chase override nor a loose-flag override applying, ends
\* with MoveTargetType = FriendlyStand
C12_HolderGoesToFriendlyStand ==
    (/\ Resolved
     /\ SeenHolding
     /\ ~ChaseCondition
     /\ ~LooseFriendlyFlagCondition
     /\ ~LooseEnemyFlagCondition)
    => AIState.MoveTargetType = "FriendlyStand"

\* the call returned at 550-555, before the game state was read
RouteStartReturn ==
    BotConfig.BotType = "Offense" /\ AIState.RouteState = "MovingToRouteStart"

C14_CarrierResolvesToFriendlyStand ==
    (/\ Resolved
     /\ CarriedObject(cycle.in)
     /\ FlagIsHome(cycle.in, "Friendly"))
    => /\ AIState.MoveTargetType = "FriendlyStand"
       /\ AIState.DesiredMoveLocation = GameState.FriendlyStandLocation

\* the location a destination type designates, as the resolved call saw it
DesignatedLocation(type) ==
    IF type = "RouteStart" THEN AIState.RouteStartLocation
    ELSE IF type = "FriendlyStand" THEN GameState.FriendlyStandLocation
    ELSE IF type = "EnemyStand" THEN GameState.EnemyStandLocation
    ELSE IF type = "FriendlyFlag" THEN FlagLocation(cycle.in, "Friendly")
    ELSE IF type = "EnemyFlag" THEN FlagLocation(cycle.in, "Enemy")
    ELSE IF AIState.CurrentTarget # NullTarget
    THEN cycle.in.obs[AIState.CurrentTarget].pos
    ELSE ZeroVector - 1

\* C15: after every resolution DesiredMoveLocation is the location
\* MoveTargetType designates (route start, a stand, a flag's current
\* location, the current target's location), for every role
C15_LocationMatchesType ==
    Resolved => AIState.DesiredMoveLocation = DesignatedLocation(AIState.MoveTargetType)

\* C16: a resolution that leaves MoveTargetType different from its value
\* before the call sets TimeOfLastMovementTargetChange to the current time,
\* the change to RouteStart of an Offense bot moving to its route start
\* included; a resolution that leaves the type unchanged leaves the time
\* stamp unchanged
C16_TypeChangeStamped ==
    Resolved =>
        IF AIState.MoveTargetType # cycle.before.MoveTargetType
        THEN TimeOfLastMovementTargetChange = now
        ELSE TimeOfLastMovementTargetChange = cycle.before.TimeOfLastMovementTargetChange

(***************************************************************************)
(* Properties of target scoring (specification SpecScore)                  *)
(***************************************************************************)
Scored == cycle.op = "GetTargetFocusScore"
\* invalid, or dead: zero health or a recorded time of death
Disqualified(t) ==
    \/ t = NullTarget
    \/ ~targets[t].valid
    \/ targets[t].Health = 0
    \/ targets[t].TimeOfDeath # 0
\* full health, standing on the ground with a flag, within 100 units
EasyCarrier(t, in) ==
    /\ ~Disqualified(t)
    /\ targets[t].Health = 200
    /\ in.obs[t].speed = 0
    /\ in.obs[t].hag = 0
    /\ in.obs[t].carrier
    /\ DistanceToTarget(t, in) <= 100

\* C17: GetTargetFocusScore returns exactly 0 for every disqualified target
\* (invalid, zero health or a recorded time of death) and a strictly
\* positive score for a full-health, stationary, grounded flag carrier
\* within 100 units
C17_ScoreZeroIffDisqualified ==
    Scored =>
        /\ Disqualified(cycle.Target) => cycle.score = 0
        /\ EasyCarrier(cycle.Target, cycle.in) => cycle.score > 0

(***************************************************************************)
(* Properties of weapon selection (specification SpecWeapon)               *)
(***************************************************************************)
Selected == cycle.op = "SelectBestWeapon"
\* the component as the selecting call found it
BeforeSelection ==
    [Self EXCEPT !.Weapon = cycle.before.Weapon,
                 !.TimeOfLastWeaponChange = cycle.before.TimeOfLastWeaponChange]
SinceLastWeaponChange == now - cycle.before.TimeOfLastWeaponChange
\* the call got past the return at 1085-1089 and reached its decision
Decided ==
    /\ Selected
    /\ AIState.CurrentTarget # NullTarget
    /\ targets[AIState.CurrentTarget].TimeOfDeath = 0
    /\ ~(SinceLastWeaponChange < Sec(2))
\* <<DiscWeight, ChaingunWeight>> at the decision, in hundredths
DecisionWeights == WeaponWeights(BeforeSelection, cycle.in)

\* C18 as stated: a decision reached with the disc score equal to the
\* chaingun score, or with both scores negative, switches to the short-range
\* weapon (the disc, index 0)
C18_TieGoesToDisc ==
    (/\ Decided
     /\ \/ DecisionWeights[1] = DecisionWeights[2]
        \/ DecisionWeights[1] < 0 /\ DecisionWeights[2] < 0)
    => Weapon = "RingLauncher"
\* C18 as the code has it: the disc is chosen only when its score is strictly
\* greater; a tie, both weapons disabled (-100 each) included, goes to the
\* chaingun (index 2)
C18_TieGoesToChaingun ==
    Decided =>
        Weapon = IF DecisionWeights[1] > DecisionWeights[2]
                 THEN "RingLauncher" ELSE "Chaingun"
\* a bot holding the disc with both weapons disabled switches to the chaingun
C18_Witness ==
    /\ Decided
    /\ DecisionWeights[1] = DecisionWeights[2]
    /\ DecisionWeights[1] < 0
    /\ cycle.before.Weapon = "RingLauncher"
    /\ Weapon = "Chaingun"

\* C19: two SelectBestWeapon calls that each change the equipped weapon are
\* at least 2 s apart, and a call made with no current target, with a target
\* that has a recorded time of death, or less than 2 s after the last change
\* switches nothing.  TimeOfLastWeaponChange is the time of the last
\* changing call (a changing call stamps it, no other call touches it), so a
\* changing call is at least 2 s after the one before it
C19_SwitchesTwoSecondsApart ==
    Selected =>
        /\ Weapon # cycle.before.Weapon
           => /\ SinceLastWeaponChange >= Sec(2)
              /\ TimeOfLastWeaponChange = now
        /\ Weapon = cycle.before.Weapon
           => TimeOfLastWeaponChange = cycle.before.TimeOfLastWeaponChange
        /\ (\/ AIState.CurrentTarget = NullTarget
            \/ targets[AIState.CurrentTarget].TimeOfDeath # 0
            \/ SinceLastWeaponChange < Sec(2))
           => /\ Weapon = cycle.before.Weapon
              /\ TimeOfLastWeaponChange = cycle.before.TimeOfLastWeaponChange
\* a second change, back to the disc, exactly 2 s after a change to the
\* chaingun
C19_Witness ==
    /\ Selected
    /\ cycle.before.Weapon = "Chaingun"
    /\ Weapon = "RingLauncher"
    /\ cycle.before.TimeOfLastWeaponChange > 0
    /\ SinceLastWeaponChange = Sec(2)

\* what the chaingun would score for a bot not holding it, and by how much
\* the score of the deciding call was reduced (in hundredths)
UnpenalisedChaingunWeight ==
    WeaponWeights([BeforeSelection EXCEPT !.Weapon = "RingLauncher"], cycle.in)[2]
ChaingunPenalty == UnpenalisedChaingunWeight - DecisionWeights[2]
\* a Horrible or Decent bot holding the chaingun reached the decision
PenaltyCase ==
    /\ Decided
    /\ cycle.before.Weapon = "Chaingun"
    /\ BotConfig.AccuracyLevel \in {"Horrible", "Decent"}
CoolDown == IF BotConfig.AccuracyLevel = "Horrible" THEN Sec(2) ELSE Sec(3)
TierPenalty == IF BotConfig.AccuracyLevel = "Horrible" THEN W(50) ELSE W(20)

\* C20 as stated: for a Horrible (Decent) bot holding the chaingun the score
\* is reduced by 50 (20) only while the 2 s (3 s) cool-down since the last
\* weapon change has not passed; once it has passed there is no penalty
C20_PenaltyOnlyDuringCooldown ==
    PenaltyCase =>
        /\ ChaingunPenalty \in {0, TierPenalty}
        /\ SinceLastWeaponChange >= CoolDown => ChaingunPenalty = 0
\* C20 as the code has it: the score is reduced by 50 (20) exactly when more
\* than 2 s (3 s) have passed since the last weapon change, and not before
C20_PenaltyOnceCooldownPassed ==
    PenaltyCase =>
        ChaingunPenalty = IF SinceLastWeaponChange > CoolDown THEN TierPenalty ELSE 0
\* a Decent bot that switched to the chaingun 4 s ago has its score reduced
\* by 20
C20_Witness ==
    /\ PenaltyCase
    /\ BotConfig.AccuracyLevel = "Decent"
    /\ cycle.before.TimeOfLastWeaponChange > 0
    /\ SinceLastWeaponChange = Sec(4)
    /\ ChaingunPenalty = W(20)

(***************************************************************************)
(* Aiming and firing                                                       *)
(***************************************************************************)
Aimed == cycle.op = "AimAtTarget"
TriggerPulled == "SetTrigger(true)" \in cycle.commands
\* the seconds a bot of the tier waits between two shots of a weapon that is
\* not the chaingun
ShotInterval ==
    CASE BotConfig.AccuracyLevel = "Horrible" -> Sec(6)
      [] BotConfig.AccuracyLevel = "Decent" -> Sec(4)
      [] BotConfig.AccuracyLevel = "Good" -> Sec(2)
      [] OTHER -> 0
\* everything but the rate limit lets the call fire: firing is requested and
\* enabled, the weapon is idle, the target is in sight and lined up
ShotOtherwiseDue ==
    /\ cycle.FireWeapon /\ BotConfig.bBotShoots /\ cycle.in.weaponReady
    /\ cycle.bCanSeeTarget /\ cycle.in.aimOK

\* C21: with a weapon other than the chaingun, a call of AimAtTarget made
\* less than the tier's interval (Horrible 6 s, Decent 4 s, Good 2 s) after
\* TimeOfLastShot does not pull the trigger and leaves TimeOfLastShot alone; a
\* call that pulls the trigger stamps TimeOfLastShot with the current time, so
\* two shots of such a bot are at least the interval apart
C21_ShotsRateLimited ==
    (Aimed /\ Weapon # "Chaingun") =>
        /\ now - cycle.before.TimeOfLastShot < ShotInterval =>
              /\ ~TriggerPulled
              /\ TimeOfLastShot = cycle.before.TimeOfLastShot
        /\ TriggerPulled =>
              /\ TimeOfLastShot = now
              /\ now - cycle.before.TimeOfLastShot >= ShotInterval
        /\ ~TriggerPulled => TimeOfLastShot = cycle.before.TimeOfLastShot

\* a bot that has fired before is asked to fire again too early, with
\* everything else in order, and holds its fire
C21_Witness ==
    /\ Aimed /\ Weapon = "RingLauncher"
    /\ cycle.before.TimeOfLastShot > 0
    /\ now - cycle.before.TimeOfLastShot < ShotInterval
    /\ ShotOtherwiseDue
    /\ ~TriggerPulled
    /\ ~Trigger

\* the traced hit point is nearer to the bot than the aim spot by more than
\* the 100 units of tolerance
HitNearerThanAimSpot == cycle.in.trace.hit + 100 < cycle.in.trace.aim

\* C22: a call of AimAtTarget whose line trace hits something meaningfully
\* nearer to the bot than the aim spot treats the shot as blocked: it releases
\* the trigger, returns false and does not pull the trigger
C22_NearerHitBlocksShot ==
    (Aimed /\ HitNearerThanAimSpot) =>
        /\ ~cycle.bCanSeeTarget
        /\ "SetTrigger(false)" \in cycle.commands
        /\ ~TriggerPulled
        /\ ~Trigger

\* the call decided that firing is allowed now: requested, enabled for the
\* bot, within the tier's rate or heat limit, the weapon idle
FiringDecided ==
    /\ cycle.FireWeapon /\ BotConfig.bBotShoots /\ cycle.in.weaponReady
    /\ FiringAllowed(BotConfig.AccuracyLevel, Weapon = "Chaingun",
                     now - cycle.before.TimeOfLastShot, cycle.in.heat)

\* C23: bPendingWeaponFire goes from false to true only in a call of
\* AimAtTarget with firing requested, firing allowed and the line-of-sight test
\* passed; the call that pulls the trigger leaves bPendingWeaponFire false and
\* TimeOfLastShot at the current time; a call without a fire request never
\* pulls the trigger, and no other call clears the flag
C23_PendingFireProtocol ==
    Aimed =>
        /\ (AIState.bPendingWeaponFire /\ ~cycle.before.bPendingWeaponFire) =>
              (FiringDecided /\ cycle.bCanSeeTarget)
        /\ TriggerPulled =>
              (~AIState.bPendingWeaponFire /\ TimeOfLastShot = now /\ Trigger)
        /\ ~cycle.FireWeapon => ~TriggerPulled
        /\ (cycle.before.bPendingWeaponFire /\ ~AIState.bPendingWeaponFire) => TriggerPulled

\* a fire decision taken in an earlier call is carried out: the flag was set
\* and this call pulls the trigger and clears it
C23_Witness ==
    /\ Aimed /\ Weapon = "RingLauncher"
    /\ cycle.before.bPendingWeaponFire
    /\ TriggerPulled
    /\ ~AIState.bPendingWeaponFire
    /\ TimeOfLastShot = now

(***************************************************************************)
(* Missing references                                                      *)
(***************************************************************************)
\* C24: EnableBotAI, a selector cycle or a frame tick made while the
\* character is missing, or its controller is missing or is not an AI
\* controller, returns without dereferencing the missing reference: no fatal
\* state is reached
C24_MissingReferencesHandled ==
    (~ParentCharacter \/ Controller # "AI") => ~fatal

\* C25: a frame tick in ShootAtTarget or WaitForBetterShot for a bot with a
\* living current target and no weapon returns without dereferencing the
\* missing weapon, whatever the tick finds in the world
C25_UnarmedTickReturns ==
    (/\ bBotInitialized /\ ~bIsDead /\ ~fatal
     /\ Weapon = "None"
     /\ AIState.CurrentTask \in {"ShootAtTarget", "WaitForBetterShot"}
     /\ AIState.CurrentTarget # NullTarget
     /\ targets[AIState.CurrentTarget].valid
     /\ targets[AIState.CurrentTarget].Health > 0
     /\ targets[AIState.CurrentTarget].TimeOfDeath = 0)
    => \A in \in TickInputs : ~TickComponentOf(Self, in).fatal

(***************************************************************************)
(* Death, actuation and route playback                                     *)
(***************************************************************************)
\* C26: while the bot is dead (after OnDied, before the next OnSpawn) every
\* run of DetermineCurrentTask and of TickComponent returns at its first
\* check: whatever the world shows, it leaves every member as it was and
\* issues no command
C26_DeadBotDoesNothing ==
    bIsDead =>
        /\ \A in \in SelectorInputs :
              LET r == DetermineCurrentTaskOf(Self, in)
              IN  r.s = Self /\ r.obs.path = "guard"
        /\ \A in \in TickInputs : TickComponentOf(Self, in) = Self

\* the selector timer fired on a dead, initialized bot
C26_Witness ==
    /\ bIsDead /\ bBotInitialized
    /\ cycle.op = "DetermineCurrentTask"
    /\ cycle.path = "guard"
    /\ cycle.commands = {}

SelectorRan == cycle.op = "DetermineCurrentTask"
\* a command that moves, turns or fires the character, or starts or stops
\* route playback
ActuationCommands ==
    {"SetTrigger(true)", "SetTrigger(false)", "SetControlRotation", "SetActorRotation",
     "SwitchToWeaponAtIndex", "Move", "MovePawnOnRoutePath", "EndRoutePathPlayback",
     "Suicide"}

\* C27 as stated: a selector cycle issues no actuation command; trigger and
\* rotations are written by frame ticks only
C27_SelectorIssuesNoCommand ==
    SelectorRan => cycle.commands \cap ActuationCommands = {}

\* C27: the trigger is pulled only by a frame tick whose committed task is
\* ShootAtTarget (or which carries out the fire decision of such a task), never by a
\* selector cycle; a selector cycle may release the trigger, turn the look and
\* body rotation through its AimAtTarget probe, start or stop route playback
\* and ask for a respawn, and issues no other command
C27_OnlyShootTickPullsTrigger ==
    /\ SelectorRan =>
          /\ "SetTrigger(true)" \notin cycle.commands
          /\ cycle.commands \subseteq
                {"SetTrigger(false)", "SetControlRotation", "SetActorRotation",
                 "MovePawnOnRoutePath", "EndRoutePathPlayback", "Suicide"}
    /\ \A r \in TickOutcomes :
          "SetTrigger(true)" \in r.commands => AIState.CurrentTask = "ShootAtTarget"

\* a selector cycle turned the character towards its target, and the next
\* frame tick may pull the trigger
C27_Witness ==
    /\ SelectorRan
    /\ {"SetControlRotation", "SetActorRotation"} \subseteq cycle.commands
    /\ \E r \in TickOutcomes : "SetTrigger(true)" \in r.commands

\* a RouteRunner bot with a route to run, switched on, on its character and
\* possessed by an AI controller
RouteRunnerReady ==
    /\ BotConfig.BotType = "RouteRunner" /\ Len(BotConfig.RouteTrailNames) >= 1
    /\ bBotInitialized /\ ParentCharacter /\ Controller = "AI"
\* the next frame tick starts route playback / does not start it
TickStartsPlayback == \A r \in TickOutcomes : "MovePawnOnRoutePath" \in r.commands
TickLeavesPlayback == \A r \in TickOutcomes : "MovePawnOnRoutePath" \notin r.commands

\* C28: a RouteRunner bot with a route starts route playback once per life:
\* the frame tick that follows a respawn (OnSpawn after OnDied) starts
\* playback again, and once a tick has started playback the following ticks
\* of the same life do not start it again
C28_PlaybackOncePerLife ==
    [][/\ (RouteRunnerReady /\ bIsDead /\ ~bIsDead') => TickStartsPlayback'
       /\ (RouteRunnerReady /\ ~bIsDead /\ ~AIState.IsTaskInitialized
           /\ AIState'.IsTaskInitialized) => TickLeavesPlayback']_vars

(***************************************************************************)
(* The intercept solver                                                    *)
(***************************************************************************)
Solved == cycle.op = "PredictiveAim"
ProjectileFaster == cycle.projectileSpeed > Abs(cycle.targetVelocity)

\* C29: when the projectile is faster than the target (as PredictiveAim sees
\* it), the call finds a solution with a finite positive intercept time and
\* returns a finite velocity of the projectile's speed, along which the
\* projectile is, at that time, where the target is: muzzle + velocity * t =
\* target + targetVelocity * t
C29_InterceptReached ==
    (Solved /\ ProjectileFaster) =>
        /\ cycle.out.kind = "finite" /\ cycle.out.valid
        /\ cycle.out.t[1] > 0 /\ cycle.out.t[2] > 0
        /\ cycle.out.projectileVelocity.kind = "finite"
        /\ LET t == cycle.out.t
               v == cycle.out.projectileVelocity.v
           IN  /\ v[2] # 0
               /\ (cycle.in.muzzle * t[2] * v[2] + v[1] * t[1])
                     = (cycle.in.target * t[2] + cycle.targetVelocity * t[1]) * v[2]
               /\ v[1] * v[1] = cycle.projectileSpeed * cycle.projectileSpeed * v[2] * v[2]

\* a ring fired at a target that moves away from the shooter
C29_Witness ==
    /\ Solved /\ ProjectileFaster
    /\ cycle.projectileSpeed = 13
    /\ cycle.targetVelocity # 0
    /\ Sign(cycle.targetVelocity) = Sign(cycle.in.target - cycle.in.muzzle)
    /\ cycle.out.valid
    /\ cycle.out.t[1] > cycle.out.t[2]

\* C30: whenever the equal-speed branch of PredictiveAim computes the
\* intercept time, its divisor targetSpeed * cosTheta is not zero, also for a
\* projectile speed of 0 against a standing target
C30_EqualSpeedDivisorNonzero ==
    (Solved /\ cycle.out.divided) => cycle.out.divisor # 0

\* the target position the spec wants the solver to use: on the ground when
\* the target is less than 600 UU (of 500 UU units) above it
SnappedTarget ==
    IF 500 * (cycle.in.target - cycle.in.ground) < 600
    THEN cycle.in.ground ELSE cycle.in.target

\* C31: a target less than 600 units above the ground is put on the ground
\* and the intercept is solved from there, a higher target is used as it is:
\* the returned velocity takes the projectile to the snapped position advanced
\* by the target's velocity
C31_SolvedFromSnappedPosition ==
    (Solved /\ ProjectileFaster) =>
        LET t == cycle.out.t
            v == cycle.out.projectileVelocity.v
        IN  /\ cycle.out.targetPosition = SnappedTarget
            /\ (cycle.in.muzzle * t[2] * v[2] + v[1] * t[1])
                  = (SnappedTarget * t[2] + cycle.targetVelocity * t[1]) * v[2]

(***************************************************************************)
(* The selector, continued                                                 *)
(***************************************************************************)
\* the outcome of the max-weight scan of the cycle: <<task, weight>>
ScanWinner == MaxTaskWeightScan(cycle.TaskWeights, 1, <<"LookingForEnemy", 0>>)

\* C32: the max-weight scan replaces the default task only by a candidate of
\* strictly positive weight: its outcome is the default (LookingForEnemy, 0)
\* or an entry of TaskWeights with positive weight, and the task the cycle
\* commits is that outcome or the default
C32_WinnerHasPositiveWeight ==
    ReachedScan =>
        /\ \/ ScanWinner = <<"LookingForEnemy", 0>>
           \/ /\ ScanWinner[2] > 0
              /\ MapHas(cycle.TaskWeights, ScanWinner[1])
              /\ MapGet(cycle.TaskWeights, ScanWinner[1]) = ScanWinner[2]
        /\ AIState.CurrentTask \in {ScanWinner[1], "LookingForEnemy"}

\* a cycle with a candidate of weight zero or less, which did not win
C32_Witness ==
    /\ ReachedScan
    /\ \E i \in 1..Len(cycle.TaskWeights) :
          /\ cycle.TaskWeights[i][2] <= 0
          /\ cycle.TaskWeights[i][1] # AIState.CurrentTask
          /\ cycle.TaskWeights[i][1] # "LookingForEnemy"

(***************************************************************************)
(* The walk to the destination                                             *)
(***************************************************************************)
Walked == cycle.op = "MoveToTarget"
\* the bot's position advanced by its velocity is closer to the destination
\* than its position
NetApproach ==
    DistanceBetweenTargets(cycle.in.botPos + cycle.in.velocity, AIState.DesiredMoveLocation)
        < DistanceBetweenTargets(cycle.in.botPos, AIState.DesiredMoveLocation)

\* C33: MoveToTarget skates only when the bot is near the ground, more than
\* 1000 from the destination and approaching it; a bot sliding away from the
\* destination does not skate
C33_SkatesOnlyOnApproach ==
    (Walked /\ "Skate" \in cycle.commands) =>
        /\ cycle.in.heightAboveGround < 100
        /\ DistanceBetweenTargets(cycle.in.botPos, AIState.DesiredMoveLocation) > 1000
        /\ NetApproach

(***************************************************************************)
(* The route of an Offense bot                                             *)
(***************************************************************************)
\* a cycle of an Offense bot that weighs its tasks and ends on its route:
\* the route was not abandoned in the cycle
StaysOnRoute ==
    /\ ReachedScan
    /\ ~bIsDead
    /\ BotConfig.BotType = "Offense"
    /\ AIState.RouteState = "RunningRoute"

\* C34: a cycle of an Offense bot that is running its route and does not
\* abandon it commits RunningRoute: no shoot, change-target or
\* look-for-enemy candidate displaces it
C34_RouteNotDisplaced ==
    StaysOnRoute =>
        AIState.CurrentTask \notin {"ShootAtTarget", "ChangeTarget", "LookingForEnemy"}

\* the start of the route is within reach: nearer than 5000 and than
\* 10 * t^2, t the seconds since the destination type last changed
RouteStartInReach ==
    LET Distance == DistanceBetweenTargets(cycle.botPos, AIState.RouteStartLocation)
        t == now - TimeOfLastMovementTargetChange
    IN  Distance < 5000 /\ Distance < t * t * 10

\* the cycle started the playback of the route
PlaybackStarted == SelectorRan /\ "MovePawnOnRoutePath" \in cycle.commands

\* C35: an Offense bot moving to the start of a route of at least one marker
\* and within reach of it starts the playback and leaves MovingToRouteStart in
\* that cycle, and the playback never starts 5000 or more from the start
C35_StartsRouteWhenInReach ==
    /\ (ReachedScan /\ ~bIsDead /\ BotConfig.BotType = "Offense"
        /\ AIState.CurrentRoute.NumMarkers >= 1 /\ RouteStartInReach)
          => AIState.RouteState # "MovingToRouteStart"
    /\ PlaybackStarted
          => DistanceBetweenTargets(cycle.botPos, AIState.RouteStartLocation) < 5000

\* the cycle ended the playback of the route
PlaybackEnded == SelectorRan /\ "EndRoutePathPlayback" \in cycle.commands

\* one step of the component moves RouteState along the chain: a route is
\* chosen, the route follow is started from MovingToRouteStart (in the cycle
\* that chose the route or a later one), the running route is abandoned (in
\* the cycle that started it or a later one), or the bot dies
RouteStateStep ==
    \/ AIState'.RouteState = AIState.RouteState
    \/ /\ AIState.RouteState = "NoRouteSelected"
       /\ AIState'.RouteState = "MovingToRouteStart"
    \/ /\ AIState.RouteState \in {"NoRouteSelected", "MovingToRouteStart"}
       /\ AIState'.RouteState = "RunningRoute"
       /\ PlaybackStarted'
    \/ /\ AIState.RouteState = "RunningRoute" \/ PlaybackStarted'
       /\ AIState'.RouteState = "AbandonedRoute"
       /\ PlaybackEnded'
    \/ /\ AIState'.RouteState = "NoRouteSelected"
       /\ bIsDead'

\* C36: RouteState changes only along NoRouteSelected -> MovingToRouteStart
\* -> RunningRoute -> AbandonedRoute, and from any state to NoRouteSelected
\* when the bot dies; RouteFinished is never set
C36_RouteStateChain == [][RouteStateStep]_vars

\* a bot that walked the whole chain and abandons its route
C36_Witness ==
    /\ PlaybackEnded
    /\ AIState.RouteState = "AbandonedRoute"
    /\ BotConfig.BotType = "Offense"

(***************************************************************************)
(* Targets and pending shots                                               *)
(***************************************************************************)
\* C37: at the end of a selector cycle of a living bot, a committed
\* ShootAtTarget or ChangeTarget has a current target
C37_ShootingTaskHasTarget ==
    (SelectorRan /\ ~bIsDead /\ AIState.CurrentTask \in {"ShootAtTarget", "ChangeTarget"})
        => AIState.CurrentTarget # NullTarget

\* C38: a pending shot does not outlive the bot or its target:
\* bPendingWeaponFire is not set while the bot is dead or has no current
\* target, so that it cannot force ShootAtTarget in later cycles
C38_PendingShotResolved ==
    AIState.bPendingWeaponFire => (~bIsDead /\ AIState.CurrentTarget # NullTarget)

\* a living bot that is not a RouteRunner, knows of no enemy, has no current
\* target and is not capping the flag
Quiet ==
    /\ ~bIsDead /\ ~fatal
    /\ BotConfig.BotType # "RouteRunner"
    /\ RecentlySeenTargets = <<>>
    /\ AIState.CurrentTarget = NullTarget
    /\ ~(AIState.bIsHoldingFlag /\ GameState.bFriendlyFlagHome)

LookCommitted == SelectorRan /\ AIState.CurrentTask = "LookingForEnemy"

\* C39: a living bot other than a RouteRunner that keeps seeing no target,
\* has no current target and is not capping the flag eventually commits
\* LookingForEnemy
C39_QuietBotLooks == Quiet ~> (LookCommitted \/ ~Quiet)

Died == cycle.op = "PossibleTargetDied"

\* after PossibleTargetDied(T): T is not the current target and not among
\* the seen targets, and every other valid entry is kept with its time
ForgottenAfterDeath ==
    Died =>
        /\ AIState.CurrentTarget # cycle.Target
        /\ ~MapHas(RecentlySeenTargets, cycle.Target)
        /\ \A i \in 1..Len(cycle.before.RecentlySeenTargets) :
              LET e == cycle.before.RecentlySeenTargets[i]
              IN  (e[1] # cycle.Target /\ e[1] # NullTarget /\ targets[e[1]].valid)
                     => /\ MapHas(RecentlySeenTargets, e[1])
                        /\ MapGet(RecentlySeenTargets, e[1]) = e[2]

\* a step of the component forgets the target reported dead, makes an enemy
\* the current target only if it is among the seen targets, and puts an
\* enemy among the seen targets only when OnPawnSeen reports it
MemoryStep ==
    /\ ForgottenAfterDeath'
    /\ \A T \in Targets :
          /\ (AIState'.CurrentTarget = T /\ AIState.CurrentTarget # T)
                => MapHas(RecentlySeenTargets, T)
          /\ (MapHas(RecentlySeenTargets', T) /\ ~MapHas(RecentlySeenTargets, T))
                => OnPawnSeen(T)

\* C40: after PossibleTargetDied(T), T is neither the current target nor a
\* seen target, the other valid entries keep their times, and T does not
\* become the current target again before OnPawnSeen reports it: a target
\* is chosen only from the seen targets and enters them only by OnPawnSeen
C40_DeadTargetForgotten == [][MemoryStep]_vars

\* the current target is reported dead while another enemy is remembered
C40_Witness ==
    /\ Died
    /\ cycle.before.CurrentTarget = cycle.Target
    /\ \E i \in 1..Len(cycle.before.RecentlySeenTargets) :
          cycle.before.RecentlySeenTargets[i][1] # cycle.Target
    /\ Len(RecentlySeenTargets) >= 1

====
